---------------------------- MODULE Spec2Model ----------------------------
(***************************************************************************)
(* The multi-server connection pool of app/connection/pool.py              *)
(* (TDXConnectionPool) and the client facade of app/connection/client.py   *)
(* (TDXClient._with_connection), as a state machine.                       *)
(*                                                                         *)
(* A call of get_connection, set_server, _mark_server_healthy or           *)
(* _mark_server_failed is one action.  return_connection and the           *)
(* maintainer's refill test the queue and then insert into it, and other   *)
(* threads run in between: each is two actions.                            *)
(***************************************************************************)
EXTENDS Integers, Sequences, FiniteSets, TLC

(***************************************************************************)
(* Bounds of the model.                                                    *)
(***************************************************************************)
\* the clock advances at most this many times
MaxTicks == 2
\* fail_count is not counted beyond this value
MaxFail == 4
\* max_connections, the capacity of each per-server queue (a constructor
\* parameter; Scenario C of the specification uses capacity 2)
max_connections == 2

(***************************************************************************)
(* Program constants: the arguments of the global TDXConnectionPool(...).  *)
(***************************************************************************)
retry_times == 3
unhealthy_threshold == 3
recovery_time == 300

\* class ServerStatus
HEALTHY == "healthy"
UNHEALTHY == "unhealthy"
UNKNOWN == "unknown"

(***************************************************************************)
(* Servers: dicts with "ip" and "port".  TDX_SERVERS is the configured     *)
(* list; AllServers are the values set_server is called with.              *)
(***************************************************************************)
S1 == [ip |-> "a", port |-> 7709]
S2 == [ip |-> "b", port |-> 7709]
S3 == [ip |-> "c", port |-> 7709]
\* the host of S1 with another port
S1b == [ip |-> "a", port |-> 7711]
TDX_SERVERS == <<S1, S2>>
AllServers == {S1, S2, S3, S1b}
Ips == {s.ip : s \in AllServers}
NoServer == [ip |-> "none", port |-> 0]

Threads == {"t1", "t2"}
\* the clock advances by half a cool-down
TickLen == recovery_time \div 2

(***************************************************************************)
(* What a queue entry or a variable "api" holds:                           *)
(*   kind "api":   a TdxHq_API object connected to `server`; live while    *)
(*                 the session is established, stale once the server       *)
(*                 dropped it                                              *)
(*   kind "tuple": the (api, server) tuple get_connection returns, around  *)
(*                 such an api, or (None, None) with server "none"         *)
(*   kind "none":  None                                                    *)
(* Connection objects carry no identity: two live connections to one       *)
(* server are the same value.                                              *)
(***************************************************************************)
\* mark tells one connection object from the others that look the same
NoneApi == [kind |-> "none", server |-> "none", live |-> FALSE,
            mark |-> FALSE]
NewApi(ip) == [kind |-> "api", server |-> ip, live |-> TRUE, mark |-> FALSE]
TupleOf(api) == [kind |-> "tuple", server |-> api.server, live |-> api.live,
                 mark |-> api.mark]

VARIABLES
    servers,               \* self.servers
    current_server_index,  \* self._current_server_index (0-based)
    server_status,         \* self._server_status: ip -> health record
    pools,                 \* self._pools: ip -> queue contents, head first
    leaked,                \* an open connection was dropped, not disconnected
    reachable,             \* environment: ip -> connect() succeeds
    now,                   \* time.time()
    warm,                  \* iterations of _warmup_pool's loop done
    pc,                    \* per request thread: where it is
    loc,                   \* per request thread: its local variables
    mpc, midx, mapi,       \* the maintainer: position, loop index, held api
    hist,                  \* per thread: what its last get_connection did
    streak,                \* per server: the failures recorded in a row
    simple,                \* the single-queue pool of main.py, next to it
    lk,                    \* self._lock and where each thread is around it
    cache                  \* the cache file of CacheService and its last calls

vars == <<servers, current_server_index, server_status, pools, leaked,
          reachable, now, warm, pc, loc, mpc, midx, mapi, hist, streak,
          simple, lk, cache>>

(***************************************************************************)
(* Helpers.                                                                *)
(***************************************************************************)
Min(a, b) == IF a < b THEN a ELSE b

\* position (1-based) of the first element of seq with the given ip, or 0
RECURSIVE IndexOfIp(_, _, _)
IndexOfIp(seq, ip, i) ==
    IF i > Len(seq) THEN 0
    ELSE IF seq[i].ip = ip THEN i
    ELSE IndexOfIp(seq, ip, i + 1)

PosOf(seq, ip) == IndexOfIp(seq, ip, 1)

Items(q) == {q[i] : i \in 1..Len(q)}

(***************************************************************************)
(* Server health registry (pool.py, _mark_server_healthy,                  *)
(* _mark_server_failed, _is_server_available).  A record holds status,     *)
(* fail_count and last_fail_time; last_success_time is written and never   *)
(* read, and is left out.                                                  *)
(***************************************************************************)
NewStatus == [status |-> UNKNOWN, fail_count |-> 0, last_fail_time |-> 0]

\* variant: the status is set and fail_count is kept
mark_server_healthy_keepcount(st, ip) ==
    IF ip \in DOMAIN st
    THEN [st EXCEPT ![ip].status = HEALTHY]
    ELSE st

\* variant: fail_count is reset and the status is kept
mark_server_healthy_keepstatus(st, ip) ==
    IF ip \in DOMAIN st
    THEN [st EXCEPT ![ip].fail_count = 0]
    ELSE st

mark_server_healthy(st, ip) ==
    IF ip \in DOMAIN st
    THEN [st EXCEPT ![ip] = [status |-> HEALTHY, fail_count |-> 0,
                             last_fail_time |-> @.last_fail_time]]
    ELSE st

\* variant: the failure is not counted
mark_server_failed_uncounted(st, ip, t) ==
    IF ip \in DOMAIN st
    THEN [st EXCEPT ![ip].last_fail_time = t]
    ELSE st

\* variant: Unhealthy only above the threshold
mark_server_failed_late(st, ip, t) ==
    IF ip \in DOMAIN st
    THEN LET n == st[ip].fail_count + 1
         IN  [st EXCEPT ![ip] =
                 [status |-> IF n > unhealthy_threshold THEN UNHEALTHY
                             ELSE @.status,
                  fail_count |-> n,
                  last_fail_time |-> t]]
    ELSE st

mark_server_failed(st, ip, t) ==
    IF ip \in DOMAIN st
    THEN LET n == st[ip].fail_count + 1
         IN  [st EXCEPT ![ip] =
                 [status |-> IF n >= unhealthy_threshold THEN UNHEALTHY
                             ELSE @.status,
                  fail_count |-> n,
                  last_fail_time |-> t]]
    ELSE st

\* variant: the cool-down includes its last instant
is_server_available_late(st, ip, t) ==
    IF ip \in DOMAIN st /\ st[ip].status = UNHEALTHY
                        /\ t - st[ip].last_fail_time <= recovery_time
    THEN FALSE
    ELSE TRUE

is_server_available(st, ip, t) ==
    IF ip \in DOMAIN st /\ st[ip].status = UNHEALTHY
                        /\ t - st[ip].last_fail_time < recovery_time
    THEN FALSE
    ELSE TRUE

(***************************************************************************)
(* Failover selector (pool.py, _get_available_servers): the primary first  *)
(* if available, then the other available servers in list order; all       *)
(* servers if none is available.                                           *)
(***************************************************************************)
\* variant: the available servers in list order, the primary not moved
get_available_servers_unordered(srvs, idx, st, t) ==
    LET Avail(s) == is_server_available(st, s.ip, t)
        available == SelectSeq(srvs, Avail)
    IN  IF available = <<>> THEN srvs ELSE available

\* variant: no forced retry, the list is empty when no server is available
get_available_servers_unforced(srvs, idx, st, t) ==
    LET current == srvs[idx + 1]
        first == IF is_server_available(st, current.ip, t)
                 THEN <<current>> ELSE <<>>
        Other(s) == s.ip # current.ip /\ is_server_available(st, s.ip, t)
    IN  first \o SelectSeq(srvs, Other)

\* variant: the other servers are not added after the primary
get_available_servers_primary(srvs, idx, st, t) ==
    LET current == srvs[idx + 1]
    IN  IF is_server_available(st, current.ip, t)
        THEN <<current>> ELSE srvs

\* variant: the primary is listed again among the other servers
get_available_servers_twice(srvs, idx, st, t) ==
    LET current == srvs[idx + 1]
        first == IF is_server_available(st, current.ip, t)
                 THEN <<current>> ELSE <<>>
        Other(s) == is_server_available(st, s.ip, t)
        available == first \o SelectSeq(srvs, Other)
    IN  IF available = <<>> THEN srvs ELSE available

get_available_servers(srvs, idx, st, t) ==
    LET current == srvs[idx + 1]
        first == IF is_server_available(st, current.ip, t)
                 THEN <<current>> ELSE <<>>
        Other(s) == s.ip # current.ip /\ is_server_available(st, s.ip, t)
        available == first \o SelectSeq(srvs, Other)
    IN  IF available = <<>> THEN srvs ELSE available

(***************************************************************************)
(* Protocol connections and queues.                                        *)
(***************************************************************************)
\* _create_connection_to_server: api.connect(ip, port) returns ok
create_connection_to_server(server) == reachable[server.ip]

\* _test_connection: get_security_count(0) answers on an established
\* session; it raises on a stale one and on anything that is not an api
test_connection(api) == api.kind = "api" /\ api.live

\* variant: disconnect() closes nothing
disconnect_never(api) == api.kind # "none"

\* api.disconnect() inside try/except closes an api.  On a tuple it raises
\* AttributeError, which is swallowed: the api inside the tuple stays open
\* and nothing refers to the tuple any more.
disconnect_leaks(api) == api.kind = "tuple" /\ api.server # "none"

\* variant: a queue without maxsize
queue_unbounded(q) == FALSE

\* queue.Queue(maxsize): full(), and the test inside put and put_nowait
queue_full(q) == Len(q) >= max_connections

\* variant: the entry is read and stays in the queue
get_nowait_peek(q) == q

\* queue.Queue.get_nowait: the queue once its first entry is taken out
get_nowait(q) == Tail(q)


(***************************************************************************)
(* What the last get_connection call did, kept for stating the claims      *)
(* until its caller goes on; the program does not read it.                 *)
(*   caller:   the thread that called                                      *)
(*   cands:    the candidate list of the call                              *)
(*   attempts: its connect attempts, per server                            *)
(*   took:     the entries it took out of queues                           *)
(*   sleeps:   its time.sleep(0.5) calls                                   *)
(*   reused:   it returned an entry taken from a queue                     *)
(*   from:     the primary when it started                                 *)
(*   how:      how the operations that failed in it failed                 *)
(***************************************************************************)
NoHist == [caller |-> "none", cands |-> <<>>, attempts |-> [i \in Ips |-> 0],
           took |-> 0, sleeps |-> 0, reused |-> FALSE, from |-> "none",
           how |-> "none"]

\* A request thread's locals.  The facade's: created, whether func was
\* called and how it ended (ran), and what _with_connection returns
\* (result: "data" for func's value, "none" for None).
NoLoc == [mode |-> "none", api |-> NoneApi, server |-> NoServer,
          target |-> "none", created |-> FALSE, ran |-> "no",
          result |-> "none"]

(***************************************************************************)
(* The single-queue pool of main.py, as constructed at import:             *)
(*   server: self.server, default_server = TDX_SERVERS[0]                  *)
(*   pool:   self._connection_pool, head first                             *)
(*   handed: what main.py's _with_connection last passed to func           *)
(*   ran:    "yes" when that call reached func, "no" when it returned      *)
(*           None before it                                                *)
(***************************************************************************)
NoSimple == [server |-> TDX_SERVERS[1], pool |-> <<>>, handed |-> NoneApi,
             ran |-> "no"]

(***************************************************************************)
(* CacheService on one file name.                                          *)
(*   file:   what the file holds.  kind: "missing", "malformed" (not a     *)
(*           JSON object) or "object"; has_ts: the object has a            *)
(*           "cached_at" that is a time; cached_at: that time; data: its   *)
(*           "data" member, None if absent or null                         *)
(*   saved:  the last save_cache call on the name, if nothing has written  *)
(*           the file since: its argument, its time and what it returned   *)
(*   loaded: the last load_cache call: its max_age and what it returned    *)
(* A Python value is given by its type and its content.                    *)
(***************************************************************************)
PyNone == [type |-> "NoneType", items |-> "none"]

PyValues ==
    { [type |-> "list", items |-> "x"], [type |-> "list", items |-> ""],
      [type |-> "tuple", items |-> "x"], [type |-> "set", items |-> "x"],
      PyNone }

NoSaved == [called |-> FALSE, data |-> PyNone, at |-> 0, ok |-> FALSE]

NoLoaded == [called |-> FALSE, max_age |-> 0, result |-> PyNone]

Missing == [kind |-> "missing", has_ts |-> FALSE, cached_at |-> 0,
            data |-> PyNone]

Malformed == [Missing EXCEPT !.kind = "malformed"]

NoCache == [file |-> Missing, saved |-> NoSaved, loaded |-> NoLoaded]

(***************************************************************************)
(* self._lock, a threading.Lock (not reentrant), and the threads around    *)
(* it: the two callers and the maintainer "hc".                            *)
(*   holder: the thread that holds the lock, or "none"                     *)
(*   op:     per thread, the operation it is in, or "none"                 *)
(*   steps:  per thread, the steps it has before it, next step first       *)
(*   left:   per thread, the rounds its loop can still make                *)
(***************************************************************************)
LockThreads == Threads \cup {"hc"}

NoLk == [holder |-> "none", op |-> [t \in LockThreads |-> "none"],
         steps |-> [t \in LockThreads |-> <<>>],
         left |-> [t \in LockThreads |-> 0]]

(***************************************************************************)
(* The calls of _mark_server_failed on a server since the last             *)
(* _mark_server_healthy on it (or since it was registered), counted apart  *)
(* from the program's own fail_count; the program does not read it.        *)
(*   n:    how many there were                                             *)
(*   from: the status the server had before the first of them              *)
(*   at:   the time of the last _mark_server_failed on the server          *)
(***************************************************************************)
NoStreak == [n |-> 0, from |-> UNKNOWN, at |-> 0]

streak_healthy(sk, ip) ==
    IF ip \in DOMAIN sk
    THEN [sk EXCEPT ![ip] = [n |-> 0, from |-> HEALTHY, at |-> @.at]]
    ELSE sk

streak_failed(sk, ip, t) ==
    IF ip \in DOMAIN sk
    THEN [sk EXCEPT ![ip] = [n |-> @.n + 1, from |-> @.from, at |-> t]]
    ELSE sk

(***************************************************************************)
(* TDXConnectionPool.__init__ up to the start of the warm-up: the fields,  *)
(* one health record and one empty queue per server, the maintainer        *)
(* thread started (it sleeps first).  Start leaves open which servers      *)
(* accept connections.                                                     *)
(***************************************************************************)
StartWith(srvs) ==
    /\ servers = srvs
    /\ current_server_index = 0
    /\ server_status = [i \in {s.ip : s \in Items(srvs)} |-> NewStatus]
    /\ pools = [i \in {s.ip : s \in Items(srvs)} |-> <<>>]
    /\ leaked = FALSE
    /\ now = 0
    /\ warm = 0
    /\ pc = [t \in Threads |-> "idle"]
    /\ loc = [t \in Threads |-> NoLoc]
    /\ mpc = "sleep"
    /\ midx = 0
    /\ mapi = NoneApi
    /\ hist = NoHist
    /\ streak = [i \in {s.ip : s \in Items(srvs)} |-> NoStreak]
    /\ simple = NoSimple
    /\ lk = NoLk
    /\ cache = NoCache

Start == StartWith(TDX_SERVERS)

\* each configured server is up or down; the others are up
Init ==
    /\ reachable \in [Ips -> BOOLEAN]
    /\ \A i \in Ips : i \notin {s.ip : s \in Items(TDX_SERVERS)} => reachable[i]
    /\ Start

WarmupDone == warm >= Min(2, max_connections)

\* variant: a connect that fails in the warm-up or in the health check is
\* recorded as a failure
probe_failed_counted(st, ip, t) == mark_server_failed(st, ip, t)

\* _warmup_pool and _do_health_check: "if api:" has no else, a connect that
\* fails leaves the health records as they are
probe_failed(st, ip, t) == st

(***************************************************************************)
(* _warmup_pool: one iteration of its loop, on the primary of the start.   *)
(* put() waits while the queue is full.                                    *)
(***************************************************************************)
warmup_pool ==
    /\ ~WarmupDone
    /\ LET server == TDX_SERVERS[1]
       IN  IF create_connection_to_server(server)
           THEN /\ ~queue_full(pools[server.ip])
                /\ pools' = [pools EXCEPT ![server.ip] =
                                 Append(@, NewApi(server.ip))]
                /\ server_status' =
                       mark_server_healthy(server_status, server.ip)
                /\ streak' = streak_healthy(streak, server.ip)
           ELSE /\ server_status' =
                       probe_failed(server_status, server.ip, now)
                /\ UNCHANGED <<pools, streak>>
    /\ warm' = warm + 1
    /\ UNCHANGED <<servers, current_server_index, leaked, reachable, now,
                   pc, loc, mpc, midx, mapi, hist>>
    /\ UNCHANGED <<simple, lk, cache>>

(***************************************************************************)
(* set_server: make a registered server (same ip) the primary, or          *)
(* register a new one and make it the primary; all under the lock.         *)
(***************************************************************************)
\* variant: a registered server that is made the primary gets a new health
\* record
set_server_renewed(server) ==
    /\ WarmupDone
    /\ LET i == PosOf(servers, server.ip)
       IN  IF i # 0
           THEN /\ current_server_index' = i - 1
                /\ server_status' =
                       [server_status EXCEPT ![server.ip] = NewStatus]
                /\ UNCHANGED <<servers, pools, streak>>
           ELSE /\ servers' = Append(servers, server)
                /\ server_status' =
                       (server.ip :> NewStatus) @@ server_status
                /\ pools' = (server.ip :> <<>>) @@ pools
                /\ current_server_index' = Len(servers)
                /\ streak' = (server.ip :> NoStreak) @@ streak
    /\ UNCHANGED <<leaked, reachable, now, warm, pc, loc, mpc, midx, mapi,
                   hist>>
    /\ UNCHANGED <<simple, lk, cache>>

\* variant: a new server is registered without a queue
set_server_unpooled(server) ==
    /\ WarmupDone
    /\ LET i == PosOf(servers, server.ip)
       IN  IF i # 0
           THEN /\ current_server_index' = i - 1
                /\ UNCHANGED <<servers, server_status, pools, streak>>
           ELSE /\ servers' = Append(servers, server)
                /\ server_status' =
                       (server.ip :> NewStatus) @@ server_status
                /\ current_server_index' = Len(servers)
                /\ streak' = (server.ip :> NoStreak) @@ streak
                /\ UNCHANGED pools
    /\ UNCHANGED <<leaked, reachable, now, warm, pc, loc, mpc, midx, mapi,
                   hist>>
    /\ UNCHANGED <<simple, lk, cache>>

set_server(server) ==
    /\ WarmupDone
    /\ LET i == PosOf(servers, server.ip)
       IN  IF i # 0
           THEN /\ current_server_index' = i - 1
                /\ UNCHANGED <<servers, server_status, pools, streak>>
           ELSE /\ servers' = Append(servers, server)
                /\ server_status' =
                       (server.ip :> NewStatus) @@ server_status
                /\ pools' = (server.ip :> <<>>) @@ pools
                /\ current_server_index' = Len(servers)
                /\ streak' = (server.ip :> NoStreak) @@ streak
    /\ UNCHANGED <<leaked, reachable, now, warm, pc, loc, mpc, midx, mapi,
                   hist>>
    /\ UNCHANGED <<simple, lk, cache>>

(***************************************************************************)
(* get_connection.  G is the call's view of the pool as it goes: status,   *)
(* pools, index, leaked, and what the call has done so far.  A reachable   *)
(* server accepts the k-th connect attempt made on it in this call.        *)
(***************************************************************************)
\* How an operation on a connection fails: it returns a failure value
\* (connect returns False, get_security_count returns None), or it raises.
Manners == {"returns", "raises"}

\* variant: _test_connection without its try
guarded_but_probe(site) == site \in {"disconnect", "connect", "close"}

\* the calls get_connection makes inside a try ... except Exception:
\* get_security_count in _test_connection ("probe"), disconnect of an entry
\* that failed the probe ("disconnect"), connect and the disconnect after a
\* failed connect in _create_connection_to_server ("connect", "close")
guarded(site) == site \in {"probe", "disconnect", "connect", "close"}

\* an exception raised at the site leaves get_connection
escapes(site, how) == how = "raises" /\ ~guarded(site)

\* variant: a sleep follows every attempt, the last one too
backoff_sleeps_each(n) == n

\* the time.sleep(0.5) calls of a retry loop that ended at its n-th
\* attempt: one after each attempt but the last (attempt < retry_times - 1),
\* and none after the attempt that connected
backoff_sleeps(n) == IF n > 0 THEN n - 1 ELSE 0

\* the loop "for server in available_servers" from its i-th server on
RECURSIVE try_servers(_, _, _, _)
try_servers(cands, i, k, G) ==
    IF i > Len(cands)
    THEN \* return None, None
         [G EXCEPT !.api = NoneApi, !.server = NoServer]
    ELSE LET server == cands[i]
             ip == server.ip
             has == ip \in DOMAIN G.pools /\ G.pools[ip] # <<>>
             api == Head(G.pools[ip])
         IN  IF has /\ test_connection(api)
             THEN \* a pooled connection passed the probe
                  [G EXCEPT !.pools[ip] = get_nowait(@),
                            !.took = @ + 1,
                            !.status = mark_server_healthy(@, ip),
                            !.streak = streak_healthy(@, ip),
                            !.api = api, !.server = server,
                            !.reused = TRUE]
             ELSE IF has /\ LET h == IF api.kind = "tuple" THEN "raises"
                                     ELSE G.how
                            IN  escapes("probe", h) \/ escapes("disconnect", h)
             THEN \* the entry was taken out and an exception goes up
                  [G EXCEPT !.pools[ip] = get_nowait(@),
                            !.took = @ + 1,
                            !.raised = TRUE]
             ELSE LET \* the queue was empty, or its entry failed the
                      \* probe and was disconnected
                      G1 == IF has
                            THEN [G EXCEPT !.pools[ip] = get_nowait(@),
                                           !.took = @ + 1,
                                           !.leaked =
                                               @ \/ disconnect_leaks(api)]
                            ELSE G
                  IN  IF retry_times > 0 /\ create_connection_to_server(server)
                      THEN \* the k-th attempt connected
                           [G1 EXCEPT
                               !.attempts[ip] = @ + k,
                               !.sleeps = @ + backoff_sleeps(k),
                               !.status = mark_server_healthy(@, ip),
                               !.streak = streak_healthy(@, ip),
                               !.index = IF PosOf(servers, ip) # 0
                                         THEN PosOf(servers, ip) - 1 ELSE @,
                               !.api = NewApi(ip), !.server = server]
                      ELSE IF retry_times > 0
                              /\ (escapes("connect", G.how)
                                     \/ escapes("close", G.how))
                      THEN \* the first attempt's exception goes up
                           [G1 EXCEPT !.attempts[ip] = @ + 1,
                                      !.raised = TRUE]
                      ELSE \* every attempt failed
                           try_servers(cands, i + 1, k,
                               [G1 EXCEPT
                                   !.attempts[ip] = @ + retry_times,
                                   !.sleeps = @ + backoff_sleeps(retry_times),
                                   !.status = mark_server_failed(@, ip, now),
                                   !.streak = streak_failed(@, ip, now)])

get_connection(t, mode, k, how) ==
    /\ WarmupDone
    /\ pc[t] = "idle"
    /\ LET cands == get_available_servers(servers, current_server_index,
                                          server_status, now)
           G == try_servers(cands, 1, k,
                    [status |-> server_status, pools |-> pools,
                     index |-> current_server_index, leaked |-> leaked,
                     streak |-> streak,
                     api |-> NoneApi, server |-> NoServer,
                     attempts |-> [i \in Ips |-> 0], took |-> 0,
                     sleeps |-> 0, reused |-> FALSE,
                     how |-> how, raised |-> FALSE])
       IN  /\ \A i \in DOMAIN G.status : G.status[i].fail_count <= MaxFail
           /\ server_status' = G.status
           /\ pools' = G.pools
           /\ current_server_index' = G.index
           /\ leaked' = G.leaked
           /\ streak' = G.streak
           /\ loc' = [loc EXCEPT ![t] = [NoLoc EXCEPT !.mode = mode,
                                                      !.api = G.api,
                                                      !.server = G.server]]
           /\ hist' = [caller |-> t, cands |-> cands,
                       attempts |-> G.attempts, took |-> G.took,
                       sleeps |-> G.sleeps, reused |-> G.reused,
                       from |-> servers[current_server_index + 1].ip,
                       how |-> how]
           /\ pc' = [pc EXCEPT ![t] = IF G.raised THEN "raised" ELSE "got"]
    /\ UNCHANGED <<servers, reachable, now, warm, mpc, midx, mapi>>

(***************************************************************************)
(* return_connection(api, server): the test of the queue, then put_nowait. *)
(* Finish(t) is where the caller goes on once return_connection is over.   *)
(***************************************************************************)
\* the caller of the last get_connection goes on: its history is dropped
Forget(t) == hist' = IF hist.caller = t THEN NoHist ELSE hist

Finish(t) ==
    IF loc[t].mode = "facade"
    THEN /\ pc' = [pc EXCEPT ![t] = "f_ret"]
         /\ loc' = [loc EXCEPT ![t].target = "none"]
    ELSE /\ pc' = [pc EXCEPT ![t] = "idle"]
         /\ loc' = [loc EXCEPT ![t] = NoLoc]

return_connection(t, api, server) ==
    IF api = NoneApi
    THEN /\ Finish(t)
         /\ UNCHANGED <<pools, leaked>>
    ELSE LET server_ip == IF server # NoServer THEN server.ip
                          ELSE servers[current_server_index + 1].ip
         IN  IF server_ip \in DOMAIN pools /\ ~queue_full(pools[server_ip])
             THEN /\ pc' = [pc EXCEPT ![t] = "rc_put"]
                  /\ loc' = [loc EXCEPT ![t].target = server_ip]
                  /\ UNCHANGED <<pools, leaked>>
             ELSE /\ leaked' = (leaked \/ disconnect_leaks(api))
                  /\ Finish(t)
                  /\ UNCHANGED pools

\* pool.put_nowait(api); queue.Full is caught and the api disconnected
put_nowait(t) ==
    /\ pc[t] = "rc_put"
    /\ LET q == pools[loc[t].target]
       IN  IF ~queue_full(q)
           THEN /\ pools' = [pools EXCEPT ![loc[t].target] =
                                 Append(q, loc[t].api)]
                /\ UNCHANGED leaked
           ELSE /\ leaked' = (leaked \/ disconnect_leaks(loc[t].api))
                /\ UNCHANGED pools
    /\ Finish(t)
    /\ UNCHANGED <<servers, current_server_index, server_status,
                   reachable, now, warm, mpc, midx, mapi, hist, streak>>
    /\ UNCHANGED <<simple, lk, cache>>

(***************************************************************************)
(* A direct caller of the pool: acquireConnection, then                    *)
(* releaseConnection(connection, server) with what it was given.           *)
(***************************************************************************)
DirectAcquire(t) ==
    /\ \E k \in 1..retry_times : get_connection(t, "direct", k, "returns")
    /\ UNCHANGED <<simple, lk, cache>>

\* the same, the operations that fail returning or raising
DirectAcquireAny(t) ==
    /\ \E k \in 1..retry_times, how \in Manners :
           get_connection(t, "direct", k, how)
    /\ UNCHANGED <<simple, lk, cache>>

DirectRelease(t) ==
    /\ pc[t] = "got"
    /\ loc[t].mode = "direct"
    /\ return_connection(t, loc[t].api, loc[t].server)
    /\ Forget(t)
    /\ UNCHANGED <<servers, current_server_index, server_status,
                   reachable, now, warm, mpc, midx, mapi, streak>>
    /\ UNCHANGED <<simple, lk, cache>>

(***************************************************************************)
(* reset_pool(server_ip) by a request thread: with a server_ip, the queue  *)
(* of that server is emptied; without one ("none"), close_all empties the  *)
(* queue of every server in turn.  One entry is taken out and              *)
(* disconnected per step.                                                  *)
(***************************************************************************)
reset_pool(t, server_ip) ==
    /\ WarmupDone
    /\ pc[t] = "idle"
    /\ IF server_ip = "none"
       THEN /\ pc' = [pc EXCEPT ![t] = "reset"]
            /\ loc' = [loc EXCEPT ![t].mode = "close_all",
                                  ![t].target = servers[1].ip]
       ELSE IF server_ip \in DOMAIN pools
            THEN /\ pc' = [pc EXCEPT ![t] = "reset"]
                 /\ loc' = [loc EXCEPT ![t].mode = "reset_pool",
                                       ![t].target = server_ip]
            ELSE UNCHANGED <<pc, loc>>
    /\ UNCHANGED <<servers, current_server_index, server_status, pools,
                   leaked, reachable, now, warm, mpc, midx, mapi, hist,
                   streak>>
    /\ UNCHANGED <<simple, lk, cache>>

\* while not pool.empty(): api = pool.get_nowait(); api.disconnect()
ResetStep(t) ==
    /\ pc[t] = "reset"
    /\ LET ip == loc[t].target
           i == PosOf(servers, ip)
       IN  IF pools[ip] # <<>>
           THEN /\ pools' = [pools EXCEPT ![ip] = get_nowait(@)]
                /\ leaked' = (leaked \/ disconnect_leaks(Head(pools[ip])))
                /\ UNCHANGED <<pc, loc>>
           ELSE /\ UNCHANGED <<pools, leaked>>
                /\ IF loc[t].mode = "close_all" /\ i < Len(servers)
                   THEN /\ loc' = [loc EXCEPT ![t].target =
                                       servers[i + 1].ip]
                        /\ UNCHANGED pc
                   ELSE Finish(t)
    /\ UNCHANGED <<servers, current_server_index, server_status, reachable,
                   now, warm, mpc, midx, mapi, hist, streak>>
    /\ UNCHANGED <<simple, lk, cache>>

Reset(t) == (\E ip \in {"none"} \cup Ips : reset_pool(t, ip)) \/ ResetStep(t)

(***************************************************************************)
(* TDXClient._with_connection (client.py).  api is what get_connection     *)
(* returned, the tuple (api, server), which is never None: created is      *)
(* False, func runs on the tuple, and the finally block calls              *)
(* return_connection(api) with the tuple and no server.                    *)
(***************************************************************************)
\* api = tdx_connection_pool.get_connection()
FacadeCall(t) ==
    /\ \E k \in 1..retry_times : get_connection(t, "facade", k, "returns")
    /\ UNCHANGED <<simple, lk, cache>>

\* variant: the failure of func is recorded against the server
operation_failed_counted(st, ip, t) == mark_server_failed(st, ip, t)

\* except Exception (around func): the error is printed and None returned;
\* the registry is not called
operation_failed(st, ip, t) == st

\* created = api is None, where api is the tuple get_connection returned.
\* If created: a one-shot connection to the primary is opened, and None is
\* returned if that fails.  Then func(api, ...) returns its value, or
\* raises and None is returned.
FacadeExec(t) ==
    /\ pc[t] = "got"
    /\ loc[t].mode = "facade"
    /\ pc' = [pc EXCEPT ![t] = "f_finally"]
    /\ LET api == TupleOf(loc[t].api)
           created == (api = NoneApi)
           server == servers[current_server_index + 1]
       IN  IF created /\ ~create_connection_to_server(server)
           THEN /\ loc' = [loc EXCEPT ![t].created = TRUE]
                /\ UNCHANGED server_status
           ELSE \E outcome \in {"returned", "raised"} :
                    /\ loc' = [loc EXCEPT
                           ![t].api = IF created THEN NewApi(server.ip)
                                      ELSE api,
                           ![t].created = created,
                           ![t].ran = outcome,
                           ![t].result = IF outcome = "returned"
                                         THEN "data" ELSE "none"]
                    /\ server_status' =
                           IF outcome = "raised"
                           THEN operation_failed(server_status,
                                                 loc[t].server.ip, now)
                           ELSE server_status
    /\ Forget(t)
    /\ UNCHANGED <<servers, current_server_index, pools, leaked, reachable,
                   now, warm, mpc, midx, mapi, streak>>
    /\ UNCHANGED <<simple, lk, cache>>

\* finally: if api is not None: api.disconnect() if created, else
\* return_connection(api), with no server
FacadeFinally(t) ==
    /\ pc[t] = "f_finally"
    /\ IF loc[t].created
       THEN /\ leaked' = (leaked \/ disconnect_leaks(loc[t].api))
            /\ Finish(t)
            /\ UNCHANGED pools
       ELSE return_connection(t, loc[t].api, NoServer)
    /\ UNCHANGED <<servers, current_server_index, server_status,
                   reachable, now, warm, mpc, midx, mapi, hist, streak>>
    /\ UNCHANGED <<simple, lk, cache>>

\* _with_connection has returned; the thread takes its next request
FacadeReturn(t) ==
    /\ pc[t] = "f_ret"
    /\ pc' = [pc EXCEPT ![t] = "idle"]
    /\ loc' = [loc EXCEPT ![t] = NoLoc]
    /\ UNCHANGED <<servers, current_server_index, server_status, pools,
                   leaked, reachable, now, warm, mpc, midx, mapi, hist,
                   streak>>
    /\ UNCHANGED <<simple, lk, cache>>


(***************************************************************************)
(* The background maintainer: _health_check_worker and _do_health_check.   *)
(***************************************************************************)
\* time.sleep(self.health_check_interval) is over; _do_health_check starts.
\* The thread is started before the warm-up and sleeps 60 s first, longer
\* than the warm-up's two connects of at most connect_timeout = 3 s.
HcBegin ==
    /\ WarmupDone
    /\ mpc = "sleep"
    /\ mpc' = "check"
    /\ midx' = 1
    /\ UNCHANGED <<servers, current_server_index, server_status, pools,
                   leaked, reachable, now, warm, pc, loc, mapi, hist, streak>>
    /\ UNCHANGED <<simple, lk, cache>>

\* the loop goes on to the next server, or the iteration is over
HcNext ==
    IF midx < Len(servers)
    THEN mpc' = "check" /\ midx' = midx + 1
    ELSE mpc' = "sleep" /\ midx' = 0

\* variant: an Unhealthy server is probed whatever the time
hc_recover_early(status, t) ==
    status.status = UNHEALTHY

\* status == UNHEALTHY and time.time() - last_fail >= recovery_time
hc_recover(status, t) ==
    /\ status.status = UNHEALTHY
    /\ t - status.last_fail_time >= recovery_time

\* variant: a Healthy server is refilled whatever its queue holds
hc_refill_always(status, q) ==
    status.status = HEALTHY

\* status == HEALTHY and pool.qsize() < 2
hc_refill(status, q) ==
    /\ status.status = HEALTHY
    /\ Len(q) < 2

\* for server in self.servers: an Unhealthy server past its cool-down is
\* probed with one connect; a Healthy server with fewer than 2 idle
\* connections gets one more
HcServer ==
    /\ mpc = "check"
    /\ LET server == servers[midx]
           ip == server.ip
           status == IF ip \in DOMAIN server_status
                     THEN server_status[ip] ELSE NewStatus
           recover == hc_recover(status, now)
           refill == ~recover /\ ip \in DOMAIN pools
                              /\ hc_refill(status, pools[ip])
       IN  IF (recover \/ refill) /\ create_connection_to_server(server)
           THEN /\ mapi' = NewApi(ip)
                /\ server_status' = IF recover
                                    THEN mark_server_healthy(server_status, ip)
                                    ELSE server_status
                /\ streak' = IF recover THEN streak_healthy(streak, ip)
                             ELSE streak
                /\ mpc' = IF recover THEN "put" ELSE "put_nowait"
                /\ UNCHANGED midx
           ELSE /\ HcNext
                /\ server_status' = IF recover \/ refill
                                    THEN probe_failed(server_status, ip, now)
                                    ELSE server_status
                /\ UNCHANGED <<mapi, streak>>
    /\ UNCHANGED <<servers, current_server_index, pools, leaked, reachable,
                   now, warm, pc, loc, hist>>
    /\ UNCHANGED <<simple, lk, cache>>

\* self._pools[ip].put(api): waits while the queue is full
HcPut ==
    /\ mpc = "put"
    /\ LET ip == servers[midx].ip
       IN  /\ ~queue_full(pools[ip])
           /\ pools' = [pools EXCEPT ![ip] = Append(@, mapi)]
    /\ mapi' = NoneApi
    /\ HcNext
    /\ UNCHANGED <<servers, current_server_index, server_status, leaked,
                   reachable, now, warm, pc, loc, hist, streak>>
    /\ UNCHANGED <<simple, lk, cache>>

\* variant: an exception ends the worker thread
worker_dies == "dead"

\* _health_check_worker, except Exception: where the worker is after an
\* exception of _do_health_check
worker_catch == "except"

\* pool.put_nowait(api); on queue.Full: api.disconnect(), outside any try
\* of _do_health_check: it returns, or it raises
HcPutNowait ==
    /\ mpc = "put_nowait"
    /\ LET ip == servers[midx].ip
       IN  IF ~queue_full(pools[ip])
           THEN /\ pools' = [pools EXCEPT ![ip] = Append(@, mapi)]
                /\ HcNext
           ELSE /\ UNCHANGED pools
                /\ \/ HcNext
                   \/ mpc' = worker_catch /\ midx' = 0
    /\ mapi' = NoneApi
    /\ UNCHANGED <<servers, current_server_index, server_status, leaked,
                   reachable, now, warm, pc, loc, hist, streak>>
    /\ UNCHANGED <<simple, lk, cache>>

\* except Exception as e: print, time.sleep(10); then the loop goes on
HcExcept ==
    /\ mpc = "except"
    /\ mpc' = "sleep"
    /\ UNCHANGED <<servers, current_server_index, server_status, pools,
                   leaked, reachable, now, warm, pc, loc, midx, mapi, hist,
                   streak>>
    /\ UNCHANGED <<simple, lk, cache>>

(***************************************************************************)
(* The environment: the clock, and servers going down and coming back.     *)
(* A server that goes down loses its sessions: the connections to it       *)
(* become stale.                                                           *)
(***************************************************************************)
Tick ==
    /\ now + TickLen <= MaxTicks * TickLen
    /\ now' = now + TickLen
    /\ UNCHANGED <<servers, current_server_index, server_status, pools,
                   leaked, reachable, warm, pc, loc, mpc, midx, mapi, hist,
                   streak>>
    /\ UNCHANGED <<simple, lk, cache>>

Stale(api, ip) ==
    IF api.server = ip THEN [api EXCEPT !.live = FALSE] ELSE api

ServerDown(ip) ==
    /\ ip \in DOMAIN server_status
    /\ reachable[ip]
    /\ reachable' = [reachable EXCEPT ![ip] = FALSE]
    /\ pools' = [i \in DOMAIN pools |->
                    [j \in 1..Len(pools[i]) |-> Stale(pools[i][j], ip)]]
    /\ loc' = [t \in Threads |-> [loc[t] EXCEPT !.api = Stale(@, ip)]]
    /\ mapi' = Stale(mapi, ip)
    /\ simple' = [simple EXCEPT
                     !.pool = [j \in 1..Len(@) |-> Stale(@[j], ip)],
                     !.handed = Stale(@, ip)]
    /\ UNCHANGED <<lk, cache>>
    /\ UNCHANGED <<servers, current_server_index, server_status, leaked,
                   now, warm, pc, mpc, midx, hist, streak>>

ServerUp(ip) ==
    /\ ip \in DOMAIN server_status
    /\ ~reachable[ip]
    /\ reachable' = [reachable EXCEPT ![ip] = TRUE]
    /\ UNCHANGED <<servers, current_server_index, server_status, pools,
                   leaked, now, warm, pc, loc, mpc, midx, mapi, hist, streak>>
    /\ UNCHANGED <<simple, lk, cache>>

(***************************************************************************)
(* Specification Spec: the pool used by one request thread that calls      *)
(* get_connection and return_connection itself, with set_server on the     *)
(* configured servers, servers going down and coming back, and the clock.  *)
(***************************************************************************)
Direct(t) == DirectAcquire(t) \/ DirectRelease(t) \/ put_nowait(t)

Facade(t) ==
    \/ FacadeCall(t)
    \/ FacadeExec(t)
    \/ FacadeFinally(t)
    \/ put_nowait(t)
    \/ FacadeReturn(t)

Maintainer == HcBegin \/ HcServer \/ HcPut \/ HcPutNowait \/ HcExcept

Flap == (\E ip \in Ips : ServerDown(ip)) \/ (\E ip \in Ips : ServerUp(ip))

Next ==
    \/ warmup_pool
    \/ Direct("t1")
    \/ \E s \in Items(TDX_SERVERS) : set_server(s)
    \/ Flap
    \/ Tick

Spec == Init /\ [][Next]_vars

(***************************************************************************)
(* Specification SpecServers: set_server also registers a third server;   *)
(* each of the three servers is up all the time or down all the time.      *)
(***************************************************************************)
NextServers ==
    \/ warmup_pool
    \/ Direct("t1")
    \/ \E s \in AllServers : set_server(s)
    \/ Tick

InitServers == reachable \in [Ips -> BOOLEAN] /\ Start

SpecServers == InitServers /\ [][NextServers]_vars

(***************************************************************************)
(* Specification SpecFacade: the pool used through                         *)
(* TDXClient._with_connection by one request thread.                       *)
(***************************************************************************)
NextFacade ==
    \/ warmup_pool
    \/ Facade("t1")
    \/ \E s \in Items(TDX_SERVERS) : set_server(s)
    \/ Flap

SpecFacade == Init /\ [][NextFacade]_vars

(***************************************************************************)
(* Specification SpecConc: two request threads and the maintainer run      *)
(* concurrently; the second configured server goes down and comes back.    *)
(***************************************************************************)
NextConc ==
    \/ warmup_pool
    \/ Direct("t1")
    \/ Direct("t2")
    \/ Maintainer
    \/ \E s \in Items(TDX_SERVERS) : set_server(s)
    \/ ServerDown("b")
    \/ ServerUp("b")
    \/ Tick

\* the first configured server is up
InitConc == Init /\ reachable["a"]

SpecConc == InitConc /\ [][NextConc]_vars

(***************************************************************************)
(* Specification SpecLive: the second configured server, once it is up,    *)
(* stays up; the first one goes down and comes back.  The constructor      *)
(* finishes the warm-up, and the caller keeps calling get_connection and   *)
(* returning what it got.  Nothing is assumed of the clock.                *)
(***************************************************************************)
NextLive ==
    \/ warmup_pool
    \/ Direct("t1")
    \/ ServerDown("a")
    \/ \E ip \in {"a", "b"} : ServerUp(ip)
    \/ Tick

SpecLive ==
    Init /\ [][NextLive]_vars /\ WF_vars(warmup_pool) /\ WF_vars(Direct("t1"))

(***************************************************************************)
(* Specification SpecMaint: one request thread and the maintainer, whose   *)
(* thread keeps running; each configured server is up or down at the       *)
(* start, and the second goes down and comes back.                         *)
(***************************************************************************)
NextMaint ==
    \/ warmup_pool
    \/ Direct("t1")
    \/ Maintainer
    \/ \E s \in Items(TDX_SERVERS) : set_server(s)
    \/ ServerDown("b")
    \/ ServerUp("b")
    \/ Tick

SpecMaint == Init /\ [][NextMaint]_vars /\ WF_vars(Maintainer)

(***************************************************************************)
(* Specification SpecOwn: two request threads that take, release and       *)
(* reset, and the maintainer that refills the queues; the servers stay up; *)
(* one idle connection object is followed.                                 *)
(***************************************************************************)
\* where a connection object can be: an entry of a queue, the hands of a
\* thread between get_connection and the end of return_connection, the
\* hands of the maintainer
Places ==
    {<<"pool", ip, i>> : ip \in Ips, i \in 1..max_connections + 1}
        \cup {<<"held", t, 0>> : t \in Threads} \cup {<<"maintainer", "", 0>>}

MarkedAt(p) ==
    IF p[1] = "pool"
    THEN p[2] \in DOMAIN pools /\ p[3] <= Len(pools[p[2]])
             /\ pools[p[2]][p[3]].mark
    ELSE IF p[1] = "held"
         THEN pc[p[2]] \in {"got", "rc_put"} /\ loc[p[2]].api.mark
         ELSE mapi.mark

MarkedPlaces == {p \in Places : MarkedAt(p)}

\* the i-th entry of the queue of ip is the object that is followed
Track(ip, i) ==
    /\ MarkedPlaces = {}
    /\ ip \in DOMAIN pools /\ i \in 1..Len(pools[ip])
    /\ pools' = [pools EXCEPT ![ip][i].mark = TRUE]
    /\ UNCHANGED <<servers, current_server_index, server_status, leaked,
                   reachable, now, warm, pc, loc, mpc, midx, mapi, hist,
                   streak>>
    /\ UNCHANGED <<simple, lk, cache>>

NextOwn ==
    \/ warmup_pool
    \/ Direct("t1")
    \/ Direct("t2")
    \/ Reset("t2")
    \/ HcBegin \/ HcServer \/ HcPutNowait \/ HcExcept
    \/ \E s \in Items(TDX_SERVERS) : set_server(s)
    \/ \E ip \in Ips, i \in 1..max_connections : Track(ip, i)

\* the configured servers are up and stay up
InitOwn == Init /\ reachable["a"] /\ reachable["b"]

SpecOwn == InitOwn /\ [][NextOwn]_vars

(***************************************************************************)
(* Specification SpecExc: Spec with operations that fail by returning a    *)
(* failure value or by raising.                                            *)
(***************************************************************************)
NextExc ==
    \/ warmup_pool
    \/ DirectAcquireAny("t1") \/ DirectRelease("t1") \/ put_nowait("t1")
    \/ \E s \in Items(TDX_SERVERS) : set_server(s)
    \/ Flap
    \/ Tick

SpecExc == Init /\ [][NextExc]_vars

(***************************************************************************)
(* Specification SpecDrain: one request thread uses the pool through       *)
(* TDXClient._with_connection while another calls reset_pool.              *)
(***************************************************************************)
NextDrain ==
    \/ warmup_pool
    \/ Facade("t1")
    \/ Reset("t2")
    \/ \E s \in Items(TDX_SERVERS) : set_server(s)

SpecDrain == Init /\ [][NextDrain]_vars

(***************************************************************************)
(* Specification SpecHealth: everything that touches or could touch a      *)
(* health record: a caller that acquires and releases, the maintainer,     *)
(* set_server, reset_pool from a second thread, the second server coming   *)
(* back if it was down, and the clock.                                     *)
(***************************************************************************)
NextHealth ==
    \/ warmup_pool
    \/ Direct("t1")
    \/ Maintainer
    \/ Reset("t2")
    \/ \E s \in Items(TDX_SERVERS) : set_server(s)
    \/ ServerUp("b")
    \/ Tick

SpecHealth == Init /\ [][NextHealth]_vars

(***************************************************************************)
(* main.py: the single-queue pool and the facade over it.                  *)
(***************************************************************************)

\* _create_connection: a connected api, or None
simple_create_connection(sp) ==
    IF reachable[sp.server.ip] THEN NewApi(sp.server.ip) ELSE NoneApi

\* get_connection: the head of the queue as it is, with no probe; on an
\* empty queue one connect attempt
simple_get_connection(sp) ==
    IF sp.pool # <<>> THEN Head(sp.pool) ELSE simple_create_connection(sp)

\* return_connection: put_nowait unless None or the queue is full, else
\* disconnect
simple_return_connection(q, api) ==
    IF api.kind # "none" /\ Len(q) < max_connections
    THEN Append(q, api) ELSE q

\* TDXClient._with_connection of main.py, whole: get_connection, the
\* fallback connect to pool.server when it gave None, func(api), and in
\* the finally disconnect (created) or return_connection (pooled)
simple_with_connection(sp) ==
    LET api == simple_get_connection(sp)
        rest == IF sp.pool # <<>> THEN Tail(sp.pool) ELSE sp.pool
        created == (api = NoneApi)
        fresh == simple_create_connection(sp)
    IN  IF created
        THEN [sp EXCEPT !.pool = rest, !.handed = fresh,
                        !.ran = IF fresh = NoneApi THEN "no" ELSE "yes"]
        ELSE [sp EXCEPT !.pool = simple_return_connection(rest, api),
                        !.handed = api, !.ran = "yes"]

\* _connection_worker_thread, one round: below max_connections it connects
\* once and puts the connection; then it sleeps test_interval
SimpleWorker ==
    /\ Len(simple.pool) < max_connections
    /\ simple_create_connection(simple) # NoneApi
    /\ simple' = [simple EXCEPT
                     !.pool = Append(@, simple_create_connection(simple))]
    /\ UNCHANGED <<lk, cache>>
    /\ UNCHANGED <<servers, current_server_index, server_status, pools,
                   leaked, reachable, now, warm, pc, loc, mpc, midx, mapi,
                   hist, streak>>

\* the same request made of both facades: client.py's _with_connection
\* starts on the multi-server pool while main.py's runs on the simple one
BothCall(t) ==
    /\ \E k \in 1..retry_times : get_connection(t, "facade", k, "returns")
    /\ simple' = simple_with_connection(simple)
    /\ UNCHANGED <<lk, cache>>

\* the network changes between requests, not during one
FlapIdle(t) ==
    /\ pc[t] = "idle"
    /\ Flap

(***************************************************************************)
(* Specification SpecBoth: one registered server, S1, up or down at the    *)
(* start.  A client sends each request to both facades; connect(S1) is     *)
(* called at any time; both pools are refilled in the background (the      *)
(* multi-server pool by its warm-up and its maintainer, the simple one by  *)
(* its worker).                                                            *)
(***************************************************************************)
InitBoth ==
    /\ reachable \in [Ips -> BOOLEAN]
    /\ \A i \in Ips : i # S1.ip => reachable[i]
    /\ StartWith(<<S1>>)

NextBoth ==
    \/ warmup_pool
    \/ SimpleWorker
    \/ BothCall("t1")
    \/ FacadeExec("t1")
    \/ FacadeFinally("t1")
    \/ put_nowait("t1")
    \/ FacadeReturn("t1")
    \/ set_server(S1)
    \/ HcBegin
    \/ HcServer
    \/ HcPutNowait
    \/ HcExcept
    \/ FlapIdle("t1")

SpecBoth == InitBoth /\ [][NextBoth]_vars

(***************************************************************************)
(* The operations as the steps they take around self._lock:                *)
(*   "acquire"   with self._lock: entered; waits while the lock is held    *)
(*   "release"   the with block is left (by its end or by a return)        *)
(*   "blocking"  a call that waits outside the program: connect, the probe,*)
(*               disconnect, time.sleep, Queue.put                         *)
(*   "local"     anything else: reads and writes of the fields, get_nowait,*)
(*               put_nowait, qsize, print                                  *)
(***************************************************************************)
RECURSIVE Repeat(_, _)
Repeat(q, n) == IF n <= 0 THEN <<>> ELSE q \o Repeat(q, n - 1)

\* the server property
server_steps == <<"acquire", "local", "release">>

\* set_server: the whole body is one with block
set_server_steps == <<"acquire", "local", "release">>

\* _mark_server_healthy and _mark_server_failed
mark_server_steps == <<"acquire", "local", "release">>

\* _is_server_available
is_server_available_steps == <<"acquire", "local", "release">>

\* variant: the list is built inside one with block
get_available_servers_locked(n) ==
    <<"acquire">> \o server_steps \o Repeat(is_server_available_steps, n)
        \o <<"release">>

\* _get_available_servers with n registered servers: self.server, the test
\* of the primary, and the test of each of the other servers
get_available_servers_steps(n) ==
    server_steps \o is_server_available_steps
        \o Repeat(is_server_available_steps, n - 1) \o <<"local">>

\* the retry loop on one server that ends at its k-th attempt: connect,
\* and a sleep after each attempt but the last; then, connected,
\* _mark_server_healthy and the index update in its own with block, or
\* _mark_server_failed
retry_steps(k, ok) ==
    Repeat(<<"blocking", "blocking">>, k - 1) \o <<"blocking">>
        \o mark_server_steps
        \o (IF ok THEN <<"acquire", "local", "release">> ELSE <<>>)

\* what get_connection does on one candidate: the entry it took passes the
\* probe ("reused"); it fails it and is disconnected, or the queue is empty,
\* and the first or the last attempt connects ("stale", "first", "last");
\* or every attempt fails ("failed")
candidate_steps(outcome) ==
    CASE outcome = "reused" -> <<"local", "blocking">> \o mark_server_steps
      [] outcome = "stale"  -> <<"local", "blocking", "blocking">>
                                   \o retry_steps(1, TRUE)
      [] outcome = "first"  -> <<"local">> \o retry_steps(1, TRUE)
      [] outcome = "last"   -> <<"local">> \o retry_steps(retry_times, TRUE)
      [] OTHER              -> <<"local">> \o retry_steps(retry_times, FALSE)

Outcomes == {"reused", "stale", "first", "last"}

\* return_connection: full(), put_nowait or disconnect
return_connection_steps == { <<"local", "local">>, <<"local", "blocking">> }

\* reset_pool and close_all: get_nowait and disconnect per entry
reset_pool_steps == { <<"local">>, <<"local", "blocking">> }

\* get_status: the whole body, qsize included, is one with block
get_status_steps == <<"acquire", "local", "release">>

\* _do_health_check on one server: nothing to do; a recovery connect that
\* fails; a recovery (connect, _mark_server_healthy, put); a refill
\* (connect, put_nowait)
health_check_steps ==
    { <<"local">>,
      <<"local", "blocking">>,
      <<"local", "blocking">> \o mark_server_steps \o <<"blocking">>,
      <<"local", "blocking", "local">> }

\* the operations a caller makes
CallerOps == {"server", "set_server", "get_connection", "return_connection",
              "reset_pool", "get_status"}

\* what an operation does before its loop, with n registered servers (an
\* operation without a loop: all it does)
Prologue(o, n) ==
    CASE o = "server" -> {server_steps}
      [] o = "set_server" -> {set_server_steps}
      [] o = "get_connection" -> {get_available_servers_steps(n)}
      [] o = "return_connection" -> return_connection_steps
      [] o = "reset_pool" -> reset_pool_steps
      [] o = "get_status" -> {get_status_steps}
      [] o = "_health_check_worker" -> {<<"blocking">>}
      [] o = "_switch_to_next_server" -> {<<"acquire", "local">>}

\* how many times its loop can go round: get_connection over the
\* candidates (some or all of the servers), _do_health_check over the
\* servers, _switch_to_next_server over range(1, len(self.servers))
Iterations(o, n) ==
    CASE o = "get_connection" -> 1..n
      [] o = "_health_check_worker" -> {n}
      [] o = "_switch_to_next_server" -> {n - 1}
      [] OTHER -> {0}

\* one round of the loop, and whether the loop goes on after it
Iteration(o) ==
    CASE o = "get_connection" ->
             { [steps |-> candidate_steps(x), more |-> FALSE] : x \in Outcomes }
             \cup { [steps |-> candidate_steps("failed"), more |-> TRUE] }
      [] o = "_health_check_worker" ->
             { [steps |-> x, more |-> TRUE] : x \in health_check_steps }
      [] o = "_switch_to_next_server" ->
             { [steps |-> is_server_available_steps \o <<"local", "release">>,
                more |-> FALSE],
               [steps |-> is_server_available_steps, more |-> TRUE] }
      [] OTHER -> {}

\* what follows a loop that was not left early
Epilogue(o) ==
    CASE o = "get_connection" -> <<"local">>
      [] o = "_switch_to_next_server" -> <<"local", "release">>
      [] OTHER -> <<>>

LkFrame ==
    UNCHANGED <<servers, current_server_index, server_status, pools, leaked,
                reachable, now, warm, pc, loc, mpc, midx, mapi, hist, streak,
                simple, cache>>

\* thread t enters operation o
Call(t, o) ==
    /\ lk.op[t] = "none"
    /\ \E q \in Prologue(o, Len(servers)), n \in Iterations(o, Len(servers)) :
           lk' = [lk EXCEPT !.op[t] = o,
                            !.steps[t] = IF n = 0 THEN q \o Epilogue(o) ELSE q,
                            !.left[t] = n]
    /\ LkFrame

\* the thread has taken its next step; after the last one the operation
\* goes round its loop or returns
Advance(t, l) ==
    IF Len(l.steps[t]) = 1 /\ l.left[t] = 0
    THEN [l EXCEPT !.op[t] = "none", !.steps[t] = <<>>]
    ELSE [l EXCEPT !.steps[t] = Tail(@)]

NextStep(t) == IF lk.steps[t] = <<>> THEN "none" ELSE Head(lk.steps[t])

\* the head of the loop: the next round is entered
Loop(t) ==
    /\ lk.op[t] # "none"
    /\ lk.steps[t] = <<>>
    /\ lk.left[t] > 0
    /\ \E it \in Iteration(lk.op[t]) :
           lk' = [lk EXCEPT
                     !.steps[t] = IF it.more /\ lk.left[t] = 1
                                  THEN it.steps \o Epilogue(lk.op[t])
                                  ELSE it.steps,
                     !.left[t] = IF it.more THEN @ - 1 ELSE 0]
    /\ LkFrame

\* Lock.acquire(): goes on only when nobody holds the lock, the caller
\* itself included
Acquire(t) ==
    /\ NextStep(t) = "acquire"
    /\ lk.holder = "none"
    /\ lk' = Advance(t, [lk EXCEPT !.holder = t])
    /\ LkFrame

Release(t) ==
    /\ NextStep(t) = "release"
    /\ lk' = Advance(t, [lk EXCEPT !.holder = "none"])
    /\ LkFrame

\* the blocking call returns
Blocking(t) ==
    /\ NextStep(t) = "blocking"
    /\ lk' = Advance(t, lk)
    /\ LkFrame

Local(t) ==
    /\ NextStep(t) = "local"
    /\ lk' = Advance(t, lk)
    /\ LkFrame

Run(t) ==
    \/ Loop(t)
    \/ Acquire(t)
    \/ Release(t)
    \/ Blocking(t)
    \/ Local(t)

(***************************************************************************)
(* Specification SpecLock: the two configured servers, both up.  Each of   *)
(* the two callers makes any of the public operations and the maintainer   *)
(* runs its rounds, all at once.  A thread that can take a step takes it.  *)
(***************************************************************************)
NextLock ==
    \/ \E o \in CallerOps : Call("t1", o)
    \/ \E o \in CallerOps : Call("t2", o)
    \/ Call("hc", "_health_check_worker")
    \/ \E t \in LockThreads : Run(t)

InitLock == Init /\ \A i \in Ips : reachable[i]

SpecLock ==
    /\ InitLock
    /\ [][NextLock]_vars
    /\ \A t \in LockThreads : WF_vars(Run(t))

(***************************************************************************)
(* Specification SpecSwitch: one or two registered servers.  Caller t1     *)
(* calls _switch_to_next_server while caller t2 makes the public           *)
(* operations and the maintainer runs.  A thread that can take a step      *)
(* again and again takes it: no thread is kept from the lock for ever by   *)
(* the others.                                                             *)
(***************************************************************************)
InitSwitch ==
    /\ reachable = [i \in Ips |-> TRUE]
    /\ \E srvs \in {<<S1>>, TDX_SERVERS} : StartWith(srvs)

NextSwitch ==
    \/ Call("t1", "_switch_to_next_server")
    \/ \E o \in CallerOps : Call("t2", o)
    \/ Call("hc", "_health_check_worker")
    \/ \E t \in LockThreads : Run(t)

SpecSwitch ==
    /\ InitSwitch
    /\ [][NextSwitch]_vars
    /\ \A t \in LockThreads : SF_vars(Run(t))

(***************************************************************************)
(* src/app/services/cache.py.                                              *)
(***************************************************************************)
\* json.dump raises TypeError on a value it has no encoding for
json_encodable(d) == d.type # "set"

\* what json.load gives for what json.dump wrote of d: a tuple is written
\* as an array and read back as a list
json_roundtrip(d) ==
    IF d.type = "tuple" THEN [d EXCEPT !.type = "list"] ELSE d

\* save_cache: open(p, "w") empties the file, then json.dump writes
\* {"cached_at": now, "data": d} piece by piece; when it raises, what was
\* written so far stays and False is returned
SaveCache(d) ==
    /\ cache' = [cache EXCEPT
                    !.file = IF json_encodable(d)
                             THEN [kind |-> "object", has_ts |-> TRUE,
                                   cached_at |-> now,
                                   data |-> json_roundtrip(d)]
                             ELSE Malformed,
                    !.saved = [called |-> TRUE, data |-> d, at |-> now,
                               ok |-> json_encodable(d)]]
    /\ UNCHANGED <<servers, current_server_index, server_status, pools,
                   leaked, reachable, now, warm, pc, loc, mpc, midx, mapi,
                   hist, streak, simple, lk>>

\* what load_cache returns
load_cache(file, max_age, t) ==
    IF file.kind = "missing" THEN PyNone
    ELSE IF file.kind = "malformed" THEN PyNone
    ELSE IF ~file.has_ts \/ file.data = PyNone THEN PyNone
    ELSE IF t - file.cached_at > max_age THEN PyNone
    ELSE file.data

MaxAges == {0, TickLen, 86400}

LoadCache(max_age) ==
    /\ cache' = [cache EXCEPT
                    !.loaded = [called |-> TRUE, max_age |-> max_age,
                                result |-> load_cache(cache.file, max_age,
                                                      now)]]
    /\ UNCHANGED <<servers, current_server_index, server_status, pools,
                   leaked, reachable, now, warm, pc, loc, mpc, midx, mapi,
                   hist, streak, simple, lk>>

\* the file is removed, or written by something else: not JSON, or an
\* object without "cached_at"
Foreign == {Missing, Malformed,
            [kind |-> "object", has_ts |-> FALSE, cached_at |-> 0,
             data |-> [type |-> "list", items |-> "x"]]}

WriteFile(f) ==
    /\ cache.file # f
    /\ cache' = [cache EXCEPT !.file = f, !.saved = NoSaved]
    /\ UNCHANGED <<servers, current_server_index, server_status, pools,
                   leaked, reachable, now, warm, pc, loc, mpc, midx, mapi,
                   hist, streak, simple, lk>>

(***************************************************************************)
(* Specification SpecCache: save_cache and load_cache calls on one name,   *)
(* with any value and any max_age, while the clock advances and the file   *)
(* is removed or overwritten from outside.                                 *)
(***************************************************************************)
NextCache ==
    \/ \E d \in PyValues : SaveCache(d)
    \/ \E m \in MaxAges : LoadCache(m)
    \/ \E f \in Foreign : WriteFile(f)
    \/ Tick

SpecCache == InitLock /\ [][NextCache]_vars

(***************************************************************************)
(* Properties.                                                             *)
(***************************************************************************)

\* C1 (Spec): failover in get_connection.  With servers [S1, S2], S1 the
\* primary, both available, both queues empty, S1 down and S2 up, a call
\* makes exactly retry_times connect attempts on S1, adds exactly 1 to
\* S1's fail_count, returns (connection, S2), leaves S2 Healthy with
\* fail_count 0 and makes S2 the primary.
C1_Failover ==
    [][ ( /\ pc["t1"] = "idle" /\ pc'["t1"] = "got"
          /\ servers = <<S1, S2>> /\ current_server_index = 0
          /\ is_server_available(server_status, "a", now)
          /\ is_server_available(server_status, "b", now)
          /\ pools["a"] = <<>> /\ pools["b"] = <<>>
          /\ ~reachable["a"] /\ reachable["b"] )
        => ( /\ hist'.attempts["a"] = retry_times
             /\ server_status'["a"].fail_count =
                    server_status["a"].fail_count + 1
             /\ loc'["t1"].api = NewApi("b")
             /\ loc'["t1"].server = S2
             /\ server_status'["b"].status = HEALTHY
             /\ server_status'["b"].fail_count = 0
             /\ current_server_index' = 1 ) ]_vars

\* such a call has just returned: it started with S1 as the primary, had
\* [S1, S2] as candidates, found no queue entry, and returned S2
C1_Witness ==
    /\ pc["t1"] = "got" /\ hist.caller = "t1"
    /\ hist.from = "a" /\ hist.cands = <<S1, S2>>
    /\ hist.took = 0 /\ hist.attempts["a"] = retry_times
    /\ loc["t1"].server = S2 /\ loc["t1"].api = NewApi("b")

C3_CandidateOrder ==
    LET c == get_available_servers(servers, current_server_index,
                                   server_status, now)
        primary == servers[current_server_index + 1]
        Avail(s) == is_server_available(server_status, s.ip, now)
    IN  (\E i \in 1..Len(servers) : Avail(servers[i])) =>
            /\ (c[1] = primary) <=> Avail(primary)
            /\ \A j \in 2..Len(c) : c[j] # primary
            /\ \A i \in 1..Len(servers) :
                   Cardinality({j \in 1..Len(c) : c[j] = servers[i]})
                       = IF Avail(servers[i]) THEN 1 ELSE 0
            /\ \A j \in 1..Len(c) : \E i \in 1..Len(servers) : c[j] = servers[i]
            /\ \A j, k \in 1..Len(c) :
                   (j < k /\ c[j] # primary /\ c[k] # primary) =>
                       PosOf(servers, c[j].ip) < PosOf(servers, c[k].ip)

\* three servers are registered, the primary is the second one and is in
\* its cool-down, and a call had the first and the third as candidates
C3_Witness ==
    /\ servers = <<S1, S2, S3>> /\ current_server_index = 1
    /\ ~is_server_available(server_status, "b", now)
    /\ pc["t1"] = "got" /\ hist.cands = <<S1, S3>>

\* C4 (SpecServers): forced retry.  If every registered server is
\* Unhealthy and within its cool-down, _get_available_servers() returns
\* the full list of registered servers; the candidate list is never empty.
C4_ForcedRetry ==
    LET c == get_available_servers(servers, current_server_index,
                                   server_status, now)
    IN  /\ c # <<>>
        /\ (\A i \in 1..Len(servers) :
                /\ server_status[servers[i].ip].status = UNHEALTHY
                /\ now - server_status[servers[i].ip].last_fail_time
                       < recovery_time)
           => c = servers

\* a call at time 0 found every server Unhealthy (every fail_count is now
\* above the threshold), had the full list as candidates and failed
C4_Witness ==
    /\ now = 0 /\ pc["t1"] = "got" /\ hist.cands = servers
    /\ loc["t1"].api = NoneApi
    /\ \A i \in 1..Len(servers) :
           /\ server_status[servers[i].ip].fail_count > unhealthy_threshold
           /\ ~is_server_available(server_status, servers[i].ip, now)

\* C5 (Spec): threshold transition.  For a server that was Unknown or
\* Healthy with fail_count 0, after unhealthy_threshold calls of
\* _mark_server_failed in a row (no _mark_server_healthy in between) the
\* status is Unhealthy, and after unhealthy_threshold - 1 it is still the
\* status the server started with.
C5_Threshold ==
    \A ip \in DOMAIN server_status :
        streak[ip].from \in {UNKNOWN, HEALTHY} =>
            /\ streak[ip].n = unhealthy_threshold =>
                   server_status[ip].status = UNHEALTHY
            /\ streak[ip].n = unhealthy_threshold - 1 =>
                   server_status[ip].status = streak[ip].from

\* a server that was Healthy has failed unhealthy_threshold times in a row
C5_Witness ==
    \E ip \in DOMAIN server_status :
        /\ streak[ip].from = HEALTHY
        /\ streak[ip].n = unhealthy_threshold
        /\ server_status[ip].status = UNHEALTHY

\* C6 (Spec): cool-down expiry.  For an Unhealthy server whose last
\* failure was recorded at time t, _is_server_available is false at every
\* time in [t, t + recovery_time) and true from t + recovery_time on,
\* whatever happened in between; for a server that is not Unhealthy it is
\* true.
C6_CoolDown ==
    \A ip \in DOMAIN server_status :
        IF server_status[ip].status = UNHEALTHY
        THEN is_server_available(server_status, ip, now)
                 <=> now >= streak[ip].at + recovery_time
        ELSE is_server_available(server_status, ip, now)

\* an Unhealthy server at the instant its cool-down ends
C6_Witness ==
    \E ip \in DOMAIN server_status :
        /\ server_status[ip].status = UNHEALTHY
        /\ now = streak[ip].at + recovery_time
        /\ is_server_available(server_status, ip, now)

\* C7 (Spec): sticky pinning.  When a get_connection call returns a
\* connection to a server B other than the primary A it started with, the
\* next get_connection, with no set_server in between, tries B before A,
\* whether the connection came out of B's queue or was created.  The
\* caller's return_connection changes neither the registry nor the
\* primary, so the candidates of the call made right after it are the
\* candidates computed in the state the first call ends in.
C7_StickyPinning ==
    [][ ( /\ pc["t1"] = "idle" /\ pc'["t1"] = "got"
          /\ loc'["t1"].api # NoneApi
          /\ loc'["t1"].server.ip # servers[current_server_index + 1].ip )
        => LET c == get_available_servers(servers', current_server_index',
                                          server_status', now')
               A == PosOf(c, servers[current_server_index + 1].ip)
               B == PosOf(c, loc'["t1"].server.ip)
           IN  B # 0 /\ (A = 0 \/ B < A) ]_vars

\* C8 (Spec): forced retry in get_connection.  When every registered
\* server is Unhealthy and within its cool-down, a call has all servers as
\* candidates and returns a connection or makes retry_times connect
\* attempts on every server; if some registered server is up, it returns
\* a live connection to a server that is up, and that server is Healthy
\* with fail_count 0.
C8_ScenarioD ==
    [][ ( /\ pc["t1"] = "idle" /\ pc'["t1"] = "got"
          /\ \A i \in 1..Len(servers) :
                 /\ server_status[servers[i].ip].status = UNHEALTHY
                 /\ now - server_status[servers[i].ip].last_fail_time
                        < recovery_time )
        => ( /\ hist'.cands = servers
             /\ \/ loc'["t1"].api # NoneApi
                \/ \A i \in 1..Len(servers) :
                       hist'.attempts[servers[i].ip] = retry_times
             /\ (\E i \in 1..Len(servers) : reachable[servers[i].ip]) =>
                    /\ loc'["t1"].api.kind = "api" /\ loc'["t1"].api.live
                    /\ loc'["t1"].api.server = loc'["t1"].server.ip
                    /\ reachable[loc'["t1"].server.ip]
                    /\ server_status'[loc'["t1"].server.ip].status = HEALTHY
                    /\ server_status'[loc'["t1"].server.ip].fail_count = 0 )
      ]_vars

\* a call at time 0 had both servers as candidates although S1 was
\* Unhealthy (it failed once more, above the threshold): S2 was in its
\* cool-down too, and the call returned a connection to S2
C8_Witness ==
    /\ now = 0 /\ pc["t1"] = "got" /\ hist.caller = "t1"
    /\ servers = <<S1, S2>> /\ hist.cands = servers
    /\ hist.attempts["a"] = retry_times
    /\ server_status["a"].fail_count > unhealthy_threshold
    /\ loc["t1"].server = S2 /\ loc["t1"].api = NewApi("b")
    /\ server_status["b"].status = HEALTHY

C10_FacadeCleanup ==
    \A t \in Threads : pc[t] = "f_ret" => ~leaked

\* C11 (SpecFacade): release goes to the connection's own pool.  In every
\* reachable state every entry of server S's queue is a connection to S;
\* a connection acquired from S and released, by a direct caller or by
\* the facade, is never placed in another server's queue.  Here the tuple
\* (api, server) the facade releases is taken for the connection in it.
C11_OwnPool ==
    \A ip \in DOMAIN pools :
        \A i \in 1..Len(pools[ip]) :
            pools[ip][i].server \in {ip, "none"}

\* C12 (SpecFacade): facade on acquire failure.  When get_connection
\* reports failure, (None, None), TDXClient._with_connection returns None
\* and does not call func.
C12_AcquireFailure ==
    \A t \in Threads :
        (/\ loc[t].mode = "facade"
         /\ pc[t] \in {"f_finally", "rc_put", "f_ret"}
         /\ loc[t].server = NoServer) =>
            (loc[t].ran = "no" /\ loc[t].result = "none")

\* C13 (SpecFacade): operation failure does not touch health.  If func
\* raises inside TDXClient._with_connection, the facade returns None, and
\* from the raise to the return no server's health record (status,
\* fail_count, last_fail_time) changes.
C13_OperationFailure ==
    [][ /\ (/\ pc["t1"] = "got" /\ pc'["t1"] = "f_finally"
            /\ loc'["t1"].ran = "raised")
           => (server_status' = server_status /\ loc'["t1"].result = "none")
        /\ loc["t1"].ran = "raised"
           => (server_status' = server_status /\ loc'["t1"].result = "none")
      ]_vars

\* func raised on a connection to the second server, after the first
\* server had failed, and _with_connection has returned
C13_Witness ==
    /\ pc["t1"] = "f_ret" /\ loc["t1"].ran = "raised"
    /\ loc["t1"].server = S2 /\ loc["t1"].result = "none"
    /\ server_status["a"].fail_count > 0

\* C14 (SpecFacade): no leak on exhaustion.  When get_connection returns
\* (None, None), everything the call took out of a queue or created has
\* been disconnected: the call leaves no connection open outside a queue.
C14_NoLeakOnExhaustion ==
    [][ ( /\ pc["t1"] = "idle" /\ pc'["t1"] = "got"
          /\ loc'["t1"].api = NoneApi )
        => leaked' = leaked ]_vars

\* C15 (SpecConc): release outcome.  return_connection(conn, S) does not
\* probe conn; when it returns, conn is the new last entry of S's queue,
\* which had room, or conn has been disconnected, the queue being full
\* (or S having no queue) and left as it was.  This holds when releases
\* race on a queue with one free place.
C15_ReleaseOutcome ==
    [][ \A t \in {"t1", "t2"} :
          ( /\ pc[t] \in {"got", "rc_put"} /\ pc'[t] = "idle"
            /\ loc[t].api # NoneApi )
          => LET S == loc[t].server.ip
             IN  \/ /\ S \in DOMAIN pools
                    /\ Len(pools[S]) < max_connections
                    /\ pools' = [pools EXCEPT ![S] = Append(@, loc[t].api)]
                    /\ leaked' = leaked
                 \/ /\ S \in DOMAIN pools => Len(pools[S]) >= max_connections
                    /\ pools' = pools
                    /\ leaked' = leaked ]_vars

\* two releases to the same server have both found room in a queue with
\* one free place
C15_Witness ==
    /\ pc["t1"] = "rc_put" /\ pc["t2"] = "rc_put"
    /\ loc["t1"].target = loc["t2"].target
    /\ Len(pools[loc["t1"].target]) = max_connections - 1

\* C16 (SpecConc): pool operations never block.  No insertion into a
\* queue waits: when the maintainer has reconnected to a recovered server
\* whose queue is full, the insertion is over at once.  So the maintainer
\* is never at its insertion with the queue full.
C16_NeverBlocks ==
    ~(mpc = "put" /\ queue_full(pools[servers[midx].ip]))

\* C17 (SpecMaint): maintainer isolation.  An exception raised inside a
\* health-check iteration does not end the background loop: from the
\* insertion whose failure path can raise (disconnect after queue.Full),
\* the loop always comes to examine a server again, in this iteration or,
\* after the exception was caught and the recovery sleep, in the next.
C17_MaintainerIsolation ==
    (mpc = "put_nowait") ~> (mpc = "check")

\* an exception of the iteration has been caught by the worker loop
C17_Witness ==
    mpc = "except"

\* C18 (SpecOwn): exclusive ownership.  Whatever the interleaving of
\* get_connection, return_connection, reset_pool and the maintainer, a
\* connection object is in at most one place: it is not held by two actors,
\* not held and idle in a queue, not twice in a queue and not in two queues.
C18_ExclusiveOwnership ==
    Cardinality(MarkedPlaces) <= 1

\* the followed object was taken from a queue by the second thread while the
\* first thread holds a connection too and the maintainer is about to insert
\* one
C18_Witness ==
    /\ pc["t2"] = "got" /\ loc["t2"].api.mark
    /\ hist.caller = "t2" /\ hist.reused
    /\ pc["t1"] = "got" /\ loc["t1"].api # NoneApi
    /\ mpc = "put_nowait"

\* C19 (SpecFacade): a probe failure is transparent.  When the first entry
\* of the queue of the call's first candidate S fails the probe,
\* get_connection disconnects it (nothing stays open outside the queues),
\* goes on to connect to S in the same call, and records no failure for the
\* probe: if S is reachable the caller gets a new connection to S and S is
\* Healthy with no failures, and if not, S has the one failure of the
\* connection attempts.
C19_ProbeTransparent ==
    [][ (/\ pc["t1"] = "idle" /\ pc'["t1"] = "got"
         /\ hist'.cands # <<>>
         /\ pools[hist'.cands[1].ip] # <<>>
         /\ ~test_connection(Head(pools[hist'.cands[1].ip])))
        => LET S == hist'.cands[1]
           IN  /\ leaked' = leaked
               /\ hist'.attempts[S.ip] >= 1
               /\ IF reachable[S.ip]
                  THEN /\ loc'["t1"].api = NewApi(S.ip)
                       /\ loc'["t1"].server = S
                       /\ server_status'[S.ip].status = HEALTHY
                       /\ server_status'[S.ip].fail_count = 0
                  ELSE server_status'[S.ip] =
                           mark_server_failed(server_status, S.ip, now)[S.ip]
      ]_vars

\* C20 (Spec), as stated: get_connection returns (None, None) only when
\* connection creation was attempted, and failed retry_times times, on every
\* registered server during the call.
C20_AllRegistered ==
    [][ (pc["t1"] = "idle" /\ pc'["t1"] = "got" /\ loc'["t1"].api = NoneApi)
        => \A i \in 1..Len(servers) :
               /\ hist'.attempts[servers[i].ip] = retry_times
               /\ ~reachable[servers[i].ip] ]_vars

\* C20 (Spec), amended: get_connection returns (None, None) only when
\* connection creation was attempted, and failed retry_times times, on every
\* candidate of the call: the available servers, or every registered server
\* when none is available.  There is at least one candidate; a server that
\* is not a candidate (Unhealthy and in its cool-down while another server
\* is available) is not tried.
C20_FailureOnlyWhenExhausted ==
    [][ (pc["t1"] = "idle" /\ pc'["t1"] = "got" /\ loc'["t1"].api = NoneApi)
        => /\ hist'.cands # <<>>
           /\ \A i \in 1..Len(hist'.cands) :
                  /\ hist'.attempts[hist'.cands[i].ip] = retry_times
                  /\ ~reachable[hist'.cands[i].ip]
           /\ \A ip \in Ips \ {hist'.cands[i].ip : i \in 1..Len(hist'.cands)} :
                  hist'.attempts[ip] = 0 ]_vars

\* a call has failed after retry_times attempts on its one candidate, the
\* second server; the first server, in its cool-down, was not tried
C20_Witness ==
    /\ pc["t1"] = "got" /\ loc["t1"].api = NoneApi
    /\ servers = <<S1, S2>>
    /\ hist.caller = "t1" /\ hist.cands = <<S2>>
    /\ hist.attempts["b"] = retry_times /\ hist.attempts["a"] = 0

\* C22 (SpecServers): set_server identifies servers by (host, port).  After
\* set_server(S) the primary server is S, host and port; nothing is added
\* if a server with S's host and port is registered, and otherwise S is
\* added, also when a registered server has S's host and another port.
C22_PrimaryIsArgument ==
    [][ \A s \in AllServers :
            set_server(s)
            => /\ servers'[current_server_index' + 1] = s
               /\ servers' = IF s \in Items(servers) THEN servers
                             ELSE Append(servers, s) ]_vars

\* C23 (SpecConc): health invariant.  Whatever the interleaving of the
\* successes and failures recorded by request threads, the warm-up and the
\* maintainer, a server whose status is Unhealthy has
\* fail_count >= unhealthy_threshold.
C23_HealthInvariant ==
    \A ip \in DOMAIN server_status :
        server_status[ip].status = UNHEALTHY
            => server_status[ip].fail_count >= unhealthy_threshold

\* the second server is Unhealthy with more failures than the threshold
\* while both request threads are between get_connection and the release
\* and the maintainer is inside an iteration
C23_Witness ==
    /\ server_status["b"].status = UNHEALTHY
    /\ server_status["b"].fail_count > unhealthy_threshold
    /\ pc["t1"] = "got" /\ pc["t2"] = "got"
    /\ mpc = "check"

\* C24 (Spec): _mark_server_healthy is idempotent on the health state.  From
\* any record (Unknown, Healthy or Unhealthy, any fail_count) it gives status
\* Healthy and fail_count 0; a second call gives the same status and
\* fail_count as the first; no other server's record changes, and an ip
\* without a record gets none.
C24_RecordSuccessIdempotent ==
    \A ip \in Ips :
        LET once == mark_server_healthy(server_status, ip)
            twice == mark_server_healthy(once, ip)
        IN  /\ DOMAIN once = DOMAIN server_status
            /\ ip \in DOMAIN server_status
                   => /\ once[ip].status = HEALTHY
                      /\ once[ip].fail_count = 0
            /\ \A j \in DOMAIN server_status :
                   /\ twice[j].status = once[j].status
                   /\ twice[j].fail_count = once[j].fail_count
                   /\ j # ip => once[j] = server_status[j]

\* get_connection has just recorded a success on the second server, which
\* had failed before, while the first server is Unhealthy
C24_Witness ==
    /\ pc["t1"] = "got" /\ loc["t1"].server = S2
    /\ server_status["b"].status = HEALTHY
    /\ server_status["b"].fail_count = 0
    /\ server_status["b"].last_fail_time > 0
    /\ server_status["a"].status = UNHEALTHY

\* C25 (SpecServers): availability monotonicity.  In every reachable state
\* every registered server with status Healthy and fail_count 0 is in the
\* list _get_available_servers() returns.
C25_HealthyIsCandidate ==
    \A i \in 1..Len(servers) :
        (/\ server_status[servers[i].ip].status = HEALTHY
         /\ server_status[servers[i].ip].fail_count = 0)
        => servers[i] \in Items(get_available_servers(servers,
                                    current_server_index, server_status, now))

\* three servers are registered; the second is Healthy with no failures and
\* is not the primary, and the first is in its cool-down and is left out
C25_Witness ==
    /\ Len(servers) = 3
    /\ server_status["b"].status = HEALTHY
    /\ server_status["b"].fail_count = 0
    /\ servers[current_server_index + 1].ip # "b"
    /\ ~is_server_available(server_status, "a", now)
    /\ get_available_servers(servers, current_server_index, server_status,
                             now) # servers

\* C26 (SpecMaint): maintainer recovery.  When the health check comes to a
\* server that is Unhealthy: within the cool-down the server is not
\* contacted (no record changes and no connection appears, reachable or
\* not); past the cool-down one connect is made: if it succeeds the server
\* is Healthy with fail_count 0 and the one new connection is what the
\* maintainer then appends to that server's queue, and if it fails the
\* maintainer goes on to the next server.
C26_MaintainerRecovery ==
    [][ LET ip == servers[midx].ip
            st == server_status[ip]
            due == now - st.last_fail_time >= recovery_time
        IN  /\ (mpc = "check" /\ <<mpc, midx>>' # <<mpc, midx>>
                    /\ st.status = UNHEALTHY)
               => /\ pools' = pools
                  /\ IF due /\ reachable[ip]
                     THEN /\ server_status' =
                                [server_status EXCEPT
                                    ![ip].status = HEALTHY,
                                    ![ip].fail_count = 0]
                          /\ mapi' = NewApi(ip)
                          /\ mpc' = "put" /\ midx' = midx
                     ELSE /\ server_status' = server_status
                          /\ mapi' = NoneApi
                          /\ mpc' \in {"check", "sleep"}
            /\ (mpc = "put" /\ mpc' # "put")
               => /\ mapi.kind = "api" /\ mapi.server = ip
                  /\ pools' = [pools EXCEPT ![ip] = Append(@, mapi)]
                  /\ Len(pools'[ip]) <= max_connections
                  /\ mapi' = NoneApi
      ]_vars

\* the connect to the recovered second server has succeeded: it is Healthy
\* and the maintainer is about to insert the connection
C26_Witness ==
    /\ mpc = "put" /\ servers[midx].ip = "b"
    /\ mapi = NewApi("b")
    /\ server_status["b"].status = HEALTHY
    /\ server_status["b"].fail_count = 0

\* C27 (SpecMaint): a connect that fails in the warm-up or in the health
\* check leaves every health record unchanged; a failure is recorded (a
\* fail_count grows, a last_fail_time changes) only by a get_connection
\* call.  So an Unhealthy server past its cool-down is still available
\* after a failed probe of the maintainer.
C27_ProbeFailureUnrecorded ==
    [][ /\ (warm' # warm /\ ~reachable[TDX_SERVERS[1].ip])
               => server_status' = server_status
        /\ (mpc = "check" /\ <<mpc, midx>>' # <<mpc, midx>>
                /\ ~reachable[servers[midx].ip])
               => /\ server_status' = server_status
                  /\ server_status[servers[midx].ip].status = UNHEALTHY
                         /\ is_server_available(server_status,
                                                servers[midx].ip, now)
                     => is_server_available(server_status',
                                            servers[midx].ip, now')
        /\ (\E ip \in DOMAIN server_status :
                \/ server_status'[ip].fail_count
                       > server_status[ip].fail_count
                \/ server_status'[ip].last_fail_time
                       # server_status[ip].last_fail_time)
               => \E t \in Threads : pc[t] = "idle" /\ pc'[t] = "got"
      ]_vars

\* the health check is over; the second server is down, Unhealthy with
\* the threshold's failures on record, past its cool-down and available
C27_Witness ==
    /\ mpc = "sleep" /\ midx = 0
    /\ ~reachable["b"]
    /\ server_status["b"].status = UNHEALTHY
    /\ server_status["b"].fail_count = unhealthy_threshold
    /\ now - server_status["b"].last_fail_time >= recovery_time
    /\ is_server_available(server_status, "b", now)
    /\ server_status["a"].status = HEALTHY

\* C28 (SpecMaint): maintainer low-water mark.  When the health check comes
\* to a Healthy server whose queue holds fewer than 2 entries it makes one
\* connect, and the one connection it got is then appended to that queue,
\* or disconnected if the queue is full by then.  A Healthy server with 2
\* or more entries and a server with status Unknown are not contacted: no
\* connection appears, reachable or not.  No health record changes.
C28_LowWaterMark ==
    [][ LET ip == servers[midx].ip
            st == server_status[ip]
        IN  /\ (mpc = "check" /\ <<mpc, midx>>' # <<mpc, midx>>
                    /\ st.status # UNHEALTHY)
               => /\ pools' = pools
                  /\ server_status' = server_status
                  /\ IF st.status = HEALTHY /\ Len(pools[ip]) < 2
                            /\ reachable[ip]
                     THEN /\ mapi' = NewApi(ip)
                          /\ mpc' = "put_nowait" /\ midx' = midx
                     ELSE /\ mapi' = NoneApi
                          /\ mpc' \in {"check", "sleep"}
            /\ (mpc = "put_nowait" /\ mpc' # "put_nowait")
               => /\ mapi.kind = "api" /\ mapi.server = ip
                  /\ mapi' = NoneApi
                  /\ leaked' = leaked
                  /\ server_status' = server_status
                  /\ pools' = IF Len(pools[ip]) < max_connections
                              THEN [pools EXCEPT ![ip] = Append(@, mapi)]
                              ELSE pools
      ]_vars

\* the maintainer connected to a server whose queue held fewer than 2
\* entries, and the queue is full by the time of the insertion
C28_Witness ==
    /\ mpc = "put_nowait"
    /\ mapi = NewApi(servers[midx].ip)
    /\ Len(pools[servers[midx].ip]) = max_connections

\* C29 (Spec): startup warm-up.  Each of the min(2, max_connections)
\* warm-up connects, made to the first configured server, adds one
\* connection to that server's queue and makes it Healthy if it succeeds
\* and changes nothing if it fails.  So when the constructor returns that
\* queue holds k entries, k <= min(2, max_connections) being the number of
\* connects that succeeded; every other queue is empty; the primary is
\* Healthy if k >= 1 and otherwise Unknown with fail_count 0; every other
\* server is Unknown; the primary index is 0.
C29_Warmup ==
    [][ warm' # warm
        => LET ip == TDX_SERVERS[1].ip
               k == Len(pools'[ip])
           IN  /\ warm' = warm + 1 /\ warm' <= Min(2, max_connections)
               /\ k = Len(pools[ip]) + (IF reachable[ip] THEN 1 ELSE 0)
               /\ reachable[ip] => pools'[ip][k] = NewApi(ip)
               /\ k <= warm'
               /\ \A j \in DOMAIN pools' :
                      /\ j # ip => pools'[j] = <<>>
                      /\ \A n \in 1..Len(pools'[j]) :
                             /\ pools'[j][n].kind = "api"
                             /\ pools'[j][n].server = ip
               /\ server_status'[ip] =
                      IF k >= 1
                      THEN [status |-> HEALTHY, fail_count |-> 0,
                            last_fail_time |-> 0]
                      ELSE NewStatus
               /\ \A j \in DOMAIN server_status' :
                      j # ip => server_status'[j] = NewStatus
               /\ servers' = TDX_SERVERS
               /\ current_server_index' = 0
               /\ leaked' = FALSE
      ]_vars

\* the constructor has returned with one connection in the primary's queue:
\* one of the two warm-up connects failed
C29_Witness ==
    /\ WarmupDone /\ warm = 2
    /\ pc["t1"] = "idle" /\ hist = NoHist
    /\ current_server_index = 0
    /\ Len(pools["a"]) = 1 /\ pools["b"] = <<>>
    /\ server_status["a"].status = HEALTHY
    /\ server_status["b"] = NewStatus

\* C30 (SpecServers): registering a server.  set_server(S) for an S whose
\* ip has no entry in the server list appends S at the end of the list,
\* gives it a health record (Unknown, fail_count 0) and an empty queue and
\* makes it the primary, in one step; the list positions, health records
\* and queues of the servers registered before are unchanged.
\* set_server(S) for a registered S changes only the primary index.
C30_Registering ==
    [][ \A s \in AllServers :
            set_server(s)
            => IF \E i \in 1..Len(servers) : servers[i].ip = s.ip
               THEN /\ servers'[current_server_index' + 1].ip = s.ip
                    /\ servers' = servers
                    /\ server_status' = server_status
                    /\ pools' = pools
               ELSE /\ servers' = Append(servers, s)
                    /\ current_server_index' = Len(servers') - 1
                    /\ DOMAIN server_status' =
                           DOMAIN server_status \cup {s.ip}
                    /\ DOMAIN pools' = DOMAIN pools \cup {s.ip}
                    /\ server_status'[s.ip] =
                           [status |-> UNKNOWN, fail_count |-> 0,
                            last_fail_time |-> 0]
                    /\ pools'[s.ip] = <<>>
                    /\ \A j \in DOMAIN server_status :
                           /\ server_status'[j] = server_status[j]
                           /\ pools'[j] = pools[j]
      ]_vars

\* the third server has been registered, while the first server is
\* Unhealthy and there is a connection in a queue: it is the last of the
\* list and the primary, Unknown, with an empty queue
C30_Witness ==
    /\ servers = <<S1, S2, S3>> /\ current_server_index = 2
    /\ server_status["c"] = NewStatus /\ pools["c"] = <<>>
    /\ server_status["a"].status = UNHEALTHY
    /\ pools["b"] # <<>>

\* C21 (SpecExc): get_connection never raises.  Whether the connects, the
\* probe and the disconnects that fail in a call return a failure value or
\* raise, on whatever servers, the call returns: a (connection, server)
\* pair, or (None, None).
C21_NeverRaises ==
    \A t \in Threads :
        /\ pc[t] # "raised"
        /\ pc[t] = "got"
               => \/ loc[t].api = NoneApi /\ loc[t].server = NoServer
                  \/ /\ loc[t].api.kind = "api"
                     /\ loc[t].server \in Items(servers)
                     /\ loc[t].api.server = loc[t].server.ip

\* a call in which the probe of a queue entry, its disconnect and every
\* connect raised has returned (None, None)
C21_Witness ==
    /\ pc["t1"] = "got" /\ hist.caller = "t1" /\ hist.how = "raises"
    /\ hist.took >= 1
    /\ \A i \in 1..Len(hist.cands) :
           hist.attempts[hist.cands[i].ip] = retry_times
    /\ loc["t1"].api = NoneApi /\ loc["t1"].server = NoServer

\* C31 (SpecDrain): drain.  reset_pool(ip) takes the entries of that
\* server's queue out one by one and disconnects each, and returns when the
\* queue is empty; reset_pool() does so for every queue in turn.  Neither
\* changes a health record, the server list or the primary index, and
\* neither touches a connection that is checked out.
C31_Drain ==
    [][ /\ (\E ip \in {"none"} \cup Ips : reset_pool("t2", ip))
               => UNCHANGED <<pools, leaked, server_status, servers,
                              current_server_index>>
        /\ ResetStep("t2")
               => LET ip == loc["t2"].target
                  IN  /\ UNCHANGED <<server_status, servers,
                                     current_server_index>>
                      /\ loc'["t1"] = loc["t1"] /\ mapi' = mapi
                      /\ leaked' = leaked
                      /\ pools' = IF pools[ip] # <<>>
                                  THEN [pools EXCEPT ![ip] = Tail(@)]
                                  ELSE pools
                      /\ pc'["t2"] = "idle" => pools'[ip] = <<>>
      ]_vars

\* C32 (SpecBoth): with one registered server, each request gives the
\* facade over the multi-server pool the same result as the facade over
\* the simple pool: func is handed a usable connection by the one exactly
\* when it is by the other.
C32_SameResult ==
    pc["t1"] = "f_finally"
        => ( (loc["t1"].ran # "no" /\ test_connection(loc["t1"].api))
             <=> (simple.ran = "yes" /\ test_connection(simple.handed)) )

\* the gaps between consecutive connect attempts on one server, summed
\* over the servers in S
RECURSIVE Gaps(_, _)
Gaps(att, S) ==
    IF S = {} THEN 0
    ELSE LET i == CHOOSE x \in S : TRUE
         IN  (IF att[i] > 0 THEN att[i] - 1 ELSE 0) + Gaps(att, S \ {i})

\* C33 as stated (Spec): in one get_connection call there are at most
\* retry_times backoff sleeps in all, and each sleep is between two connect
\* attempts on the same server.
C33_AtMostRetryTimes ==
    hist.caller # "none"
        => /\ hist.sleeps <= retry_times
           /\ hist.sleeps = Gaps(hist.attempts, Ips)

\* C33 (Spec): bounded backoff.  In one get_connection call every sleep is
\* between two connect attempts on the same server, so there are at most
\* retry_times - 1 sleeps per candidate of the call and at most
\* (retry_times - 1) * (number of candidates) in all.
C33_Backoff ==
    hist.caller # "none"
        => /\ hist.sleeps = Gaps(hist.attempts, Ips)
           /\ \A i \in Ips : hist.attempts[i] <= retry_times
           /\ \A i \in Ips : hist.attempts[i] > 0
                                => \E j \in DOMAIN hist.cands :
                                       hist.cands[j].ip = i
           /\ hist.sleeps <= (retry_times - 1) * Len(hist.cands)

\* a call that failed on two candidates and slept more than retry_times times
C33_Witness ==
    /\ hist.caller # "none"
    /\ Len(hist.cands) = 2
    /\ hist.sleeps = 2 * (retry_times - 1)
    /\ hist.sleeps > retry_times
    /\ loc[hist.caller].api = NoneApi

\* C34 (SpecLock): deadlock freedom of the metadata lock under any
\* interleaving of get_connection, return_connection, set_server,
\* reset_pool, get_status, the server property and the maintainer.  No
\* thread is about to take the lock while it holds it; no thread holds it
\* at a blocking connect, probe, disconnect, sleep or queue put; the lock
\* is held only inside an operation; and a thread that holds the lock
\* gives it up, so that a thread waiting for it is not waiting for a lock
\* that is never freed.
C34_NoLockDeadlock ==
    /\ [](\A t \in LockThreads :
             /\ NextStep(t) = "acquire" => lk.holder # t
             /\ NextStep(t) = "blocking" => lk.holder # t
             /\ lk.holder = t => lk.op[t] # "none" /\ lk.steps[t] # <<>>)
    /\ \A t \in LockThreads : (lk.holder = t) ~> (lk.holder = "none")

\* t1, inside get_connection, is waiting for the lock that t2 holds inside
\* set_server while the maintainer is in a blocking call
C34_Witness ==
    /\ lk.op["t1"] = "get_connection" /\ NextStep("t1") = "acquire"
    /\ lk.op["t2"] = "set_server" /\ lk.holder = "t2"
    /\ NextStep("hc") = "blocking"

\* C35 (SpecExc): one get_connection call is bounded.  Its candidates are
\* distinct servers, each visited at most once; from each candidate's queue
\* it takes at most one entry (the one it probes) and from no other queue;
\* it makes at most retry_times connect attempts per candidate and none on
\* another server; it records at most one failure per server.
C35_BoundedCall ==
    [][ (pc["t1"] = "idle" /\ pc'["t1"] \in {"got", "raised"})
        => LET cands == hist'.cands
               CandIps == {cands[j].ip : j \in DOMAIN cands}
               Shrunk == {i \in DOMAIN pools : Len(pools'[i]) < Len(pools[i])}
           IN  /\ hist'.caller = "t1"
               /\ cands # <<>>
               /\ \A i, j \in DOMAIN cands :
                      cands[i].ip = cands[j].ip => i = j
               /\ \A i \in DOMAIN pools :
                      /\ Len(pools'[i]) >= Len(pools[i]) - 1
                      /\ Len(pools'[i]) <= Len(pools[i])
               /\ Shrunk \subseteq CandIps
               /\ hist'.took = Cardinality(Shrunk)
               /\ \A i \in Ips :
                      /\ hist'.attempts[i] <= retry_times
                      /\ hist'.attempts[i] > 0 => i \in CandIps
               /\ \A i \in DOMAIN server_status :
                      /\ server_status'[i].fail_count
                             <= server_status[i].fail_count + 1
                      /\ streak'[i].n <= streak[i].n + 1
                      /\ server_status'[i].fail_count
                             > server_status[i].fail_count => i \in CandIps
      ]_vars

\* a call that took and probed an entry on each of two candidates, made
\* retry_times connect attempts on each and returned nothing
C35_Witness ==
    /\ hist.caller = "t1"
    /\ Len(hist.cands) = 2
    /\ hist.took = 2
    /\ \A j \in 1..2 : hist.attempts[hist.cands[j].ip] = retry_times
    /\ pc["t1"] = "got" /\ loc["t1"].api = NoneApi

\* C36 (SpecHealth): health status transitions.  A status that is not
\* Unknown never becomes Unknown.  An Unhealthy status changes only to
\* Healthy with fail_count 0, which is what _mark_server_healthy writes
\* after a connect or a probe that succeeded, and so never while the
\* server is down.  The clock, set_server and reset_pool change no health
\* record; a get_connection call on a server that is down leaves it
\* Unhealthy.
C36_StatusTransitions ==
    [][ /\ \A ip \in DOMAIN server_status :
               /\ ip \in DOMAIN server_status'
               /\ server_status[ip].status # UNKNOWN
                      => server_status'[ip].status # UNKNOWN
               /\ (server_status[ip].status = UNHEALTHY
                       /\ server_status'[ip].status # UNHEALTHY)
                      => /\ server_status'[ip]
                                = mark_server_healthy(server_status, ip)[ip]
                         /\ reachable[ip]
                         /\ \/ pc["t1"] = "idle" /\ pc'["t1"] = "got"
                                   /\ loc'["t1"].server.ip = ip
                            \/ mpc = "check" /\ servers[midx].ip = ip
               /\ (server_status[ip].status = UNHEALTHY /\ ~reachable[ip])
                      => server_status'[ip].status = UNHEALTHY
        /\ Tick => server_status' = server_status
        /\ Reset("t2") => server_status' = server_status
        /\ (\E s \in Items(TDX_SERVERS) : set_server(s))
               => server_status' = server_status
      ]_vars

\* the second server, Unhealthy until its cool-down had passed, has just
\* been recovered by the maintainer's connect (the connection is not in
\* its queue yet), while reset_pool is at work on a queue
C36_Witness ==
    /\ mpc = "put" /\ mapi.server = "b"
    /\ server_status["b"].status = HEALTHY
    /\ server_status["b"].fail_count = 0
    /\ now >= recovery_time
    /\ pc["t2"] = "reset"

\* C37 (SpecServers): primary index validity.  In every state the primary
\* index is that of a registered server, and every registered server has a
\* health record and a queue (set_server does all its writes inside one
\* with block, so these are the states in which the lock is free); in every
\* step the server list stays as it is or gets one server appended.
C37_IndexValid ==
    /\ [](/\ current_server_index \in 0..(Len(servers) - 1)
          /\ \A j \in DOMAIN servers :
                 /\ servers[j].ip \in DOMAIN server_status
                 /\ servers[j].ip \in DOMAIN pools)
    /\ [][ \/ servers' = servers
           \/ \E s \in AllServers : servers' = Append(servers, s) ]_vars

\* a third server was registered by set_server and made the primary; then
\* a get_connection call failed over from it and moved the primary back
C37_Witness ==
    /\ Len(servers) = 3
    /\ hist.caller = "t1" /\ hist.from = servers[3].ip
    /\ current_server_index < 2
    /\ loc["t1"].api.kind = "api"

C39_SwitchReturns ==
    /\ \A t \in LockThreads :
           (lk.op[t] = "_switch_to_next_server") ~> (lk.op[t] = "none")
    /\ [](\A t \in LockThreads : lk.op[t] = "none" => lk.holder # t)

=============================================================================
